---- MODULE Spec2Model ----
(***************************************************************************)
(* A model of the diff / match / patch library in src/diff/dmp.go.         *)
(*                                                                         *)
(* Texts are Go strings: sequences of bytes, modelled as sequences of      *)
(* ASCII codes.  An index i of the Go code is position i+1 of the          *)
(* sequence.  A Diff is a record [Type, Text] with Type -1 (delete),       *)
(* 0 (equal) or 1 (insert).  A call that ends in a Go run-time panic or in *)
(* log.Fatal yields the value Panic instead of a result.                   *)
(***************************************************************************)
EXTENDS Integers, Sequences, FiniteSets, TLC

VARIABLES pc, in, out

vars == <<pc, in, out>>

(***************************************************************************)
(* Bounds of the model.                                                    *)
(***************************************************************************)
\* longest text of an edit of an input edit script
MaxEditLen == 2
\* most edits in an input edit script
MaxEdits == 3
\* longest input text of a diff
MaxTextLen == 4
\* deepest recursion of DiffCleanupMerge followed before the call is taken
\* to recurse without end
MaxMergeDepth == 6
\* the longest text of an edit, and the most edits, passed to DiffLevenshtein
MaxLevLen == 2
MaxLevEdits == 4
\* most turns of the loop of DiffCleanupSemanticLossless followed
MaxLosslessTurns == 12
\* the turns of the loop of PatchSplitMax over one oversized patch that are followed
MaxSplitTurns == 6
\* the most patches of a list, the most edits the patches of a list hold
\* together, and the longest text of such an edit
MaxPatches == 2
MaxPatchEdits == 2
MaxPatchEditLen == 3
\* the longest delta passed to DiffFromDelta
MaxDeltaLen == 4
\* the most lines of a patch text passed to PatchFromText
MaxPatchLines == 3

(***************************************************************************)
(* Values.                                                                 *)
(***************************************************************************)
DiffDelete == -1
DiffInsert == 1
DiffEqual == 0

\* the bytes the model names
Ascii == [tab |-> 9, lf |-> 10, space |-> 32, pct |-> 37, plus |-> 43,
          comma |-> 44, minus |-> 45, zero |-> 48, eq |-> 61, at |-> 64, a |-> 97, b |-> 98]

\* the letters input texts are made of
Alphabet == {Ascii.a, Ascii.b}

Diff(type, text) == [Type |-> type, Text |-> text]

\* the outcome of a call that panicked, and of one that returned v
Panic == [panic |-> TRUE, val |-> <<>>]
Ok(v) == [panic |-> FALSE, val |-> v]

Min(x, y) == IF x < y THEN x ELSE y
Max(x, y) == IF x > y THEN x ELSE y

\* all sequences over S of length at most n
RECURSIVE SeqsUpTo(_, _)
SeqsUpTo(S, n) ==
  IF n = 0 THEN {<<>>}
  ELSE LET shorter == SeqsUpTo(S, n - 1)
       IN shorter \cup {Append(s, x) : s \in {t \in shorter : Len(t) = n - 1}, x \in S}

(***************************************************************************)
(* Go string and slice primitives.                                         *)
(***************************************************************************)
\* s[lo:hi]
Slice(s, lo, hi) == SubSeq(s, lo + 1, hi)
\* s[lo:]
From(s, lo) == SubSeq(s, lo + 1, Len(s))
\* whether s[lo:hi] is within bounds (Go panics otherwise)
SliceOK(s, lo, hi) == 0 <= lo /\ lo <= hi /\ hi <= Len(s)
\* s[i]
At(s, i) == s[i + 1]

HasPrefix(s, p) == Len(p) <= Len(s) /\ Slice(s, 0, Len(p)) = p
HasSuffix(s, p) == Len(p) <= Len(s) /\ From(s, Len(s) - Len(p)) = p

\* strings.Index(s, sub): the first index of sub in s, or -1
StringsIndex(s, sub) ==
  LET hits == {i \in 0..(Len(s) - Len(sub)) : Slice(s, i, i + Len(sub)) = sub}
  IN IF hits = {} THEN -1 ELSE CHOOSE i \in hits : \A j \in hits : i <= j

\* strings.LastIndex(s, sub): the last index of sub in s, or -1
StringsLastIndex(s, sub) ==
  LET hits == {i \in 0..(Len(s) - Len(sub)) : Slice(s, i, i + Len(sub)) = sub}
  IN IF hits = {} THEN -1 ELSE CHOOSE i \in hits : \A j \in hits : i >= j

\* indexOf(str, pattern, i)
indexOf(str, pattern, i) ==
  IF i > Len(str) - 1 THEN -1
  ELSE IF i = 0 THEN StringsIndex(str, pattern)
  ELSE LET ind == StringsIndex(From(str, i), pattern)
       IN IF ind = -1 THEN -1 ELSE ind + i

\* string(n) of an int n: the UTF-8 bytes of the code point n (n < 2048)
RuneString(n) ==
  IF n < 128 THEN <<n>> ELSE <<192 + (n \div 64), 128 + (n % 64)>>

\* splice(slice, index, amount, elements...), as a value
splice(slice, index, amount, elements) ==
  Slice(slice, 0, index) \o elements \o From(slice, index + amount)

\* The caller's slice after a call of splice(slice, index, 1) whose result
\* is dropped: append writes the tail one place to the left in the shared
\* array, and the caller's slice keeps its length, so its last element
\* stays where it was.
spliceDropped(slice, index) ==
  [j \in 1..Len(slice) |->
     IF j <= index THEN slice[j]
     ELSE IF j < Len(slice) THEN slice[j + 1]
     ELSE slice[j]]

\* DiffCommonPrefix
DiffCommonPrefix(text1, text2) ==
  LET n == Min(Len(text1), Len(text2))
      differ == {i \in 0..(n - 1) : At(text1, i) # At(text2, i)}
  IN IF differ = {} THEN n ELSE CHOOSE i \in differ : \A j \in differ : i <= j

\* DiffCommonSuffix
DiffCommonSuffix(text1, text2) ==
  LET n == Min(Len(text1), Len(text2))
      differ == {i \in 1..n : At(text1, Len(text1) - i) # At(text2, Len(text2) - i)}
  IN IF differ = {} THEN n ELSE (CHOOSE i \in differ : \A j \in differ : i <= j) - 1

\* DiffText1: the texts of the equalities and deletions
RECURSIVE DiffText1(_)
DiffText1(diffs) ==
  IF diffs = <<>> THEN <<>>
  ELSE (IF Head(diffs).Type # DiffInsert THEN Head(diffs).Text ELSE <<>>)
       \o DiffText1(Tail(diffs))

\* DiffText2: the texts of the equalities and insertions
RECURSIVE DiffText2(_)
DiffText2(diffs) ==
  IF diffs = <<>> THEN <<>>
  ELSE (IF Head(diffs).Type # DiffDelete THEN Head(diffs).Text ELSE <<>>)
       \o DiffText2(Tail(diffs))

\* diffs with the Text of the element at index i replaced
SetText(diffs, i, text) == [diffs EXCEPT ![i + 1].Text = text]
SetType(diffs, i, type) == [diffs EXCEPT ![i + 1].Type = type]

(***************************************************************************)
(* DiffCleanupMerge                                                        *)
(***************************************************************************)
\* The first loop of DiffCleanupMerge at an equality that follows more than
\* one edit.  m holds the local variables: diffs, pointer, count_delete,
\* count_insert, text_delete, text_insert.
\* Factor out a common prefix of the insertion and the deletion.
MergeCommonPrefix(m) ==
  LET commonlength == DiffCommonPrefix(m.text_insert, m.text_delete)
      x == m.pointer - m.count_delete - m.count_insert
      common == Slice(m.text_insert, 0, commonlength)
  IN IF ~(m.count_delete # 0 /\ m.count_insert # 0) \/ commonlength = 0 THEN m
     ELSE IF x > 0 /\ At(m.diffs, x - 1).Type = DiffEqual
     THEN [m EXCEPT !.diffs = SetText(m.diffs, x - 1, At(m.diffs, x - 1).Text \o common),
                    !.text_insert = From(@, commonlength),
                    !.text_delete = From(@, commonlength)]
     ELSE [m EXCEPT !.diffs = <<Diff(DiffEqual, common)>> \o m.diffs,
                    !.pointer = @ + 1,
                    !.text_insert = From(@, commonlength),
                    !.text_delete = From(@, commonlength)]

\* Factor out a common suffix of the insertion and the deletion.
MergeCommonSuffix(m) ==
  LET commonlength == DiffCommonSuffix(m.text_insert, m.text_delete)
      insert_index == Len(m.text_insert) - commonlength
      delete_index == Len(m.text_delete) - commonlength
  IN IF ~(m.count_delete # 0 /\ m.count_insert # 0) \/ commonlength = 0 THEN m
     ELSE [m EXCEPT !.diffs = SetText(m.diffs, m.pointer,
                                      From(m.text_insert, insert_index)
                                        \o At(m.diffs, m.pointer).Text),
                    !.text_insert = Slice(@, 0, insert_index),
                    !.text_delete = Slice(@, 0, delete_index)]

\* Delete the offending records and add the merged ones.
MergeReplace(m) ==
  LET cd == m.count_delete
      ci == m.count_insert
  IN [diffs |->
        IF cd = 0
        THEN splice(m.diffs, m.pointer - ci, cd + ci, <<Diff(DiffInsert, m.text_insert)>>)
        ELSE IF ci = 0
        THEN splice(m.diffs, m.pointer - cd, cd + ci, <<Diff(DiffDelete, m.text_delete)>>)
        ELSE splice(m.diffs, m.pointer - cd - ci, cd + ci,
                    <<Diff(DiffDelete, m.text_delete), Diff(DiffInsert, m.text_insert)>>),
      pointer |-> m.pointer - cd - ci + 1
                  + (IF cd # 0 THEN 1 ELSE 0) + (IF ci # 0 THEN 1 ELSE 0)]

\* One turn of the first loop of DiffCleanupMerge at an equality.
MergeEquality(m) ==
  IF m.count_delete + m.count_insert > 1
  THEN MergeReplace(MergeCommonSuffix(MergeCommonPrefix(m)))
  ELSE IF m.pointer # 0 /\ At(m.diffs, m.pointer - 1).Type = DiffEqual THEN
    \* merge this equality with the previous one
    [diffs |-> splice(SetText(m.diffs, m.pointer - 1,
                              At(m.diffs, m.pointer - 1).Text \o At(m.diffs, m.pointer).Text),
                      m.pointer, 1, <<>>),
     pointer |-> m.pointer]
  ELSE [diffs |-> m.diffs, pointer |-> m.pointer + 1]

RECURSIVE MergeFirstPass(_)
MergeFirstPass(m) ==
  IF ~(m.pointer < Len(m.diffs)) THEN m.diffs
  ELSE LET d == At(m.diffs, m.pointer)
       IN IF d.Type = DiffInsert
          THEN MergeFirstPass([m EXCEPT !.count_insert = @ + 1,
                                        !.text_insert = @ \o d.Text,
                                        !.pointer = @ + 1])
          ELSE IF d.Type = DiffDelete
          THEN MergeFirstPass([m EXCEPT !.count_delete = @ + 1,
                                        !.text_delete = @ \o d.Text,
                                        !.pointer = @ + 1])
          ELSE LET r == MergeEquality(m)
               IN MergeFirstPass([diffs |-> r.diffs, pointer |-> r.pointer,
                                  count_delete |-> 0, count_insert |-> 0,
                                  text_delete |-> <<>>, text_insert |-> <<>>])

\* The second loop of DiffCleanupMerge, from index pointer.  Both calls of
\* splice drop the result, so the slice keeps its length.
MergeSlideLeft(diffs, pointer) ==
  LET prev == At(diffs, pointer - 1).Text
      edit == At(diffs, pointer).Text
      d1 == SetText(diffs, pointer, prev \o Slice(edit, 0, Len(edit) - Len(prev)))
      d2 == SetText(d1, pointer + 1, prev \o At(d1, pointer + 1).Text)
  IN spliceDropped(d2, pointer - 1)

MergeSlideRight(diffs, pointer) ==
  LET next == At(diffs, pointer + 1).Text
      edit == At(diffs, pointer).Text
      d1 == SetText(diffs, pointer - 1, At(diffs, pointer - 1).Text \o next)
      d2 == SetText(d1, pointer, From(edit, Len(next)) \o next)
  IN spliceDropped(d2, pointer + 1)

RECURSIVE MergeSecondPass(_, _, _)
MergeSecondPass(diffs, pointer, changes) ==
  IF ~(pointer < Len(diffs) - 1) THEN [diffs |-> diffs, changes |-> changes]
  ELSE IF At(diffs, pointer - 1).Type = DiffEqual /\ At(diffs, pointer + 1).Type = DiffEqual
  THEN IF HasSuffix(At(diffs, pointer).Text, At(diffs, pointer - 1).Text)
       THEN MergeSecondPass(MergeSlideLeft(diffs, pointer), pointer + 1, TRUE)
       ELSE IF HasPrefix(At(diffs, pointer).Text, At(diffs, pointer + 1).Text)
       THEN MergeSecondPass(MergeSlideRight(diffs, pointer), pointer + 1, TRUE)
       ELSE MergeSecondPass(diffs, pointer + 1, changes)
  ELSE MergeSecondPass(diffs, pointer + 1, changes)

\* One call of DiffCleanupMerge up to its recursive call: the slice after
\* the two passes and whether the second pass slid an edit.
MergePass(diffs) ==
  LET first == MergeFirstPass([diffs |-> Append(diffs, Diff(DiffEqual, <<>>)),
                               pointer |-> 0,
                               count_delete |-> 0, count_insert |-> 0,
                               text_delete |-> <<>>, text_insert |-> <<>>])
      trimmed == IF Len(first[Len(first)].Text) = 0
                 THEN Slice(first, 0, Len(first) - 1) ELSE first
  IN MergeSecondPass(trimmed, 1, FALSE)

\* DiffCleanupMerge, with the depth of its recursion counted down from n.
\* A call whose second pass keeps sliding calls itself without end and the
\* Go run time ends the process (stack overflow): the outcome is Panic.
RECURSIVE MergeRec(_, _)
MergeRec(diffs, n) ==
  IF n = 0 THEN Panic
  ELSE LET second == MergePass(diffs)
       IN IF second.changes THEN MergeRec(second.diffs, n - 1) ELSE Ok(second.diffs)

DiffCleanupMerge(diffs) == MergeRec(diffs, MaxMergeDepth)

(***************************************************************************)
(* DiffCleanupSemanticLossless                                             *)
(***************************************************************************)
\* diffCleanupSemanticScore_.  The regular expressions tell apart the
\* characters of [^a-zA-Z0-9], \s and [\r\n], and the texts that end with a
\* blank line (\n\r?\n$).
diffCleanupSemanticScore_(one, two) ==
  LET NonAlphaNumeric(c) ==
        ~((48 <= c /\ c <= 57) \/ (65 <= c /\ c <= 90) \/ (97 <= c /\ c <= 122))
      Whitespace(c) == c \in {9, 10, 11, 12, 13, 32}
      LineBreak(c) == c \in {10, 13}
      BlankLineEnd(text) == HasSuffix(text, <<10, 10>>) \/ HasSuffix(text, <<10, 13, 10>>)
  IN
  IF Len(one) = 0 \/ Len(two) = 0 THEN 6
  ELSE LET char1 == one[Len(one)]
           char2 == two[1]
       IN IF (LineBreak(char1) /\ BlankLineEnd(one)) \/ (LineBreak(char2) /\ BlankLineEnd(two))
          THEN 5
          ELSE IF LineBreak(char1) \/ LineBreak(char2) THEN 4
          ELSE IF NonAlphaNumeric(char1) /\ ~Whitespace(char1) /\ Whitespace(char2) THEN 3
          ELSE IF Whitespace(char1) \/ Whitespace(char2) THEN 2
          ELSE IF NonAlphaNumeric(char1) \/ NonAlphaNumeric(char2) THEN 1
          ELSE 0

\* the score of the two boundaries of e = [equality1, edit, equality2]
LosslessScore(e) ==
  diffCleanupSemanticScore_(e.equality1, e.edit) + diffCleanupSemanticScore_(e.edit, e.equality2)

\* First, shift the edit as far left as possible.
LosslessShiftLeft(e) ==
  LET commonOffset == DiffCommonSuffix(e.equality1, e.edit)
      commonString == From(e.edit, Len(e.edit) - commonOffset)
  IN IF commonOffset > 0
     THEN [equality1 |-> Slice(e.equality1, 0, Len(e.equality1) - commonOffset),
           edit |-> commonString \o Slice(e.edit, 0, Len(e.edit) - commonOffset),
           equality2 |-> commonString \o e.equality2]
     ELSE e

\* Second, step character by character right, looking for the best fit.
RECURSIVE LosslessBestFit(_, _)
LosslessBestFit(e, best) ==
  IF ~(Len(e.edit) # 0 /\ Len(e.equality2) # 0 /\ e.edit[1] = e.equality2[1]) THEN best
  ELSE LET next == [equality1 |-> Append(e.equality1, e.edit[1]),
                    edit |-> Append(Tail(e.edit), e.equality2[1]),
                    equality2 |-> Tail(e.equality2)]
       IN LosslessBestFit(next, IF LosslessScore(next) >= LosslessScore(best)
                                THEN next ELSE best)

\* Save an improvement back to the diff.  The splice that should remove an
\* emptied first equality drops its result.
LosslessSaveEquality1(diffs, pointer, best) ==
  IF Len(best.equality1) # 0
  THEN [diffs |-> SetText(diffs, pointer - 1, best.equality1), pointer |-> pointer]
  ELSE [diffs |-> spliceDropped(diffs, pointer - 1), pointer |-> pointer - 1]

LosslessSaveRest(m, best) ==
  IF Len(best.equality2) # 0
  THEN [diffs |-> SetText(SetText(m.diffs, m.pointer, best.edit),
                          m.pointer + 1, best.equality2),
        pointer |-> m.pointer]
  ELSE [diffs |-> splice(SetText(m.diffs, m.pointer, best.edit), m.pointer + 1, 1, <<>>),
        pointer |-> m.pointer - 1]

\* One turn of the loop of DiffCleanupSemanticLossless at a single edit
\* surrounded by equalities.
LosslessStep(diffs, pointer, best) ==
  IF At(diffs, pointer - 1).Text # best.equality1
  THEN LosslessSaveRest(LosslessSaveEquality1(diffs, pointer, best), best)
  ELSE [diffs |-> diffs, pointer |-> pointer]

\* The loop of DiffCleanupSemanticLossless, with its turns counted down
\* from n.
RECURSIVE LosslessLoop(_, _)
LosslessLoop(m, n) ==
  IF ~(m.pointer < Len(m.diffs) - 1) THEN Ok(m.diffs)
  ELSE IF n = 0 \/ m.pointer < 1 THEN Panic
  ELSE IF At(m.diffs, m.pointer - 1).Type = DiffEqual
          /\ At(m.diffs, m.pointer + 1).Type = DiffEqual
  THEN LET shifted == LosslessShiftLeft([equality1 |-> At(m.diffs, m.pointer - 1).Text,
                                         edit |-> At(m.diffs, m.pointer).Text,
                                         equality2 |-> At(m.diffs, m.pointer + 1).Text])
           r == LosslessStep(m.diffs, m.pointer, LosslessBestFit(shifted, shifted))
       IN LosslessLoop([diffs |-> r.diffs, pointer |-> r.pointer + 1], n - 1)
  ELSE LosslessLoop([m EXCEPT !.pointer = @ + 1], n - 1)

\* DiffCleanupSemanticLossless
DiffCleanupSemanticLossless(diffs) ==
  LosslessLoop([diffs |-> diffs, pointer |-> 1], MaxLosslessTurns)

(***************************************************************************)
(* DiffCleanupSemantic                                                     *)
(***************************************************************************)
\* The loop of DiffCommonOverlap over the truncated texts.
RECURSIVE CommonOverlapLoop(_, _, _, _)
CommonOverlapLoop(text1, text2, best, length) ==
  LET found == StringsIndex(text2, From(text1, Len(text1) - length))
  IN IF found = -1 THEN best
     ELSE IF found = 0 \/ From(text1, Len(text1) - length - found) = Slice(text2, 0, length + found)
     THEN CommonOverlapLoop(text1, text2, length + found, length + found + 1)
     ELSE CommonOverlapLoop(text1, text2, best, length + found)

\* DiffCommonOverlap: the length of the longest suffix of text1 that is a
\* prefix of text2
DiffCommonOverlap(text1, text2) ==
  LET text_length == Min(Len(text1), Len(text2))
      t1 == From(text1, Len(text1) - text_length)
      t2 == Slice(text2, 0, text_length)
  IN IF text_length = 0 THEN 0
     ELSE IF t1 = t2 THEN text_length
     ELSE CommonOverlapLoop(t1, t2, 0, 1)

\* The stack of indices (the type Stack); the top is the last element.
StackPush(stack, value) == Append(stack, value)
StackPop(stack) == IF stack = <<>> THEN stack ELSE SubSeq(stack, 1, Len(stack) - 1)
StackPeek(stack) == IF stack = <<>> THEN -1 ELSE stack[Len(stack)]
StackLen(stack) == Len(stack)

\* The first loop of DiffCleanupSemantic at an equality.  m holds the local
\* variables of the loop.
SemanticEquality(m) ==
  [m EXCEPT !.equalities = StackPush(@, m.pointer),
            !.length_insertions1 = m.length_insertions2,
            !.length_deletions1 = m.length_deletions2,
            !.length_insertions2 = 0,
            !.length_deletions2 = 0,
            !.lastequality = At(m.diffs, m.pointer).Text]

\* The first loop at an insertion or deletion: count its characters.
SemanticCount(m) ==
  IF At(m.diffs, m.pointer).Type = DiffInsert
  THEN [m EXCEPT !.length_insertions2 = @ + Len(At(m.diffs, m.pointer).Text)]
  ELSE [m EXCEPT !.length_deletions2 = @ + Len(At(m.diffs, m.pointer).Text)]

\* Eliminate the last equality: duplicate the record as a deletion, change
\* the second copy to an insertion, and go back to the equality before.
SemanticEliminate(m, insPoint) ==
  [m EXCEPT !.diffs = SetType(splice(m.diffs, insPoint, 0,
                                     <<Diff(DiffDelete, m.lastequality)>>),
                              insPoint + 1, DiffInsert),
            !.equalities = IF StackLen(StackPop(@)) > 0
                           THEN StackPop(StackPop(@)) ELSE StackPop(@),
            !.pointer = IF StackLen(StackPop(m.equalities)) > 0
                        THEN StackPeek(StackPop(StackPop(m.equalities))) ELSE -1,
            !.length_insertions1 = 0, !.length_deletions1 = 0,
            !.length_insertions2 = 0, !.length_deletions2 = 0,
            !.lastequality = <<>>,
            !.changes = TRUE]

\* whether the last equality is no longer than the edits on both sides of it
SemanticDominated(m) ==
  /\ Len(m.lastequality) > 0
  /\ Len(m.lastequality) <= Max(m.length_insertions1, m.length_deletions1)
  /\ Len(m.lastequality) <= Max(m.length_insertions2, m.length_deletions2)

SemanticEdit(m) ==
  IF SemanticDominated(m) THEN SemanticEliminate(m, StackPeek(m.equalities)) ELSE m

RECURSIVE SemanticLoop(_)
SemanticLoop(m) ==
  IF ~(m.pointer < Len(m.diffs)) THEN m
  ELSE IF At(m.diffs, m.pointer).Type = DiffEqual
  THEN SemanticLoop([SemanticEquality(m) EXCEPT !.pointer = @ + 1])
  ELSE SemanticLoop([SemanticEdit(SemanticCount(m)) EXCEPT !.pointer = @ + 1])

\* An overlap of a deletion and the insertion after it, at index pointer:
\* insert an equality and trim the surrounding edits.
SemanticOverlap(diffs, pointer, overlap_length1) ==
  LET deletion == At(diffs, pointer - 1).Text
      insertion == At(diffs, pointer).Text
      equality == Diff(DiffEqual, Slice(insertion, 0, overlap_length1))
  IN SetText(SetText(splice(diffs, pointer, 0, <<equality>>),
                     pointer - 1, Slice(deletion, 0, Len(deletion) - overlap_length1)),
             pointer + 1, From(insertion, overlap_length1))

\* A reverse overlap: insert an equality and swap and trim the surrounding
\* edits.  The text of the equality is taken from the start of the insertion.
SemanticReverseOverlap(diffs, pointer, overlap_length2) ==
  LET deletion == At(diffs, pointer - 1).Text
      insertion == At(diffs, pointer).Text
      equality == Diff(DiffEqual, Slice(insertion, 0, overlap_length2))
  IN [splice(diffs, pointer, 0, <<equality>>) EXCEPT
        ![pointer] = Diff(DiffInsert, Slice(insertion, 0, Len(insertion) - overlap_length2)),
        ![pointer + 2] = Diff(DiffDelete, From(deletion, overlap_length2))]

\* One turn of the second loop at a deletion followed by an insertion:
\* whether and how an overlap is carved out.
SemanticCarve(diffs, pointer, overlap_length1, overlap_length2) ==
  LET half1 == Len(At(diffs, pointer - 1).Text) \div 2
      half2 == Len(At(diffs, pointer).Text) \div 2
  IN IF overlap_length1 >= overlap_length2
     THEN IF overlap_length1 >= half1 \/ overlap_length1 >= half2
          THEN [diffs |-> SemanticOverlap(diffs, pointer, overlap_length1),
                pointer |-> pointer + 3]
          ELSE [diffs |-> diffs, pointer |-> pointer + 2]
     ELSE IF overlap_length2 >= half1 \/ overlap_length2 >= half2
          THEN [diffs |-> SemanticReverseOverlap(diffs, pointer, overlap_length2),
                pointer |-> pointer + 3]
          ELSE [diffs |-> diffs, pointer |-> pointer + 2]

RECURSIVE SemanticOverlapLoop(_)
SemanticOverlapLoop(m) ==
  IF ~(m.pointer < Len(m.diffs)) THEN m.diffs
  ELSE IF At(m.diffs, m.pointer - 1).Type = DiffDelete
          /\ At(m.diffs, m.pointer).Type = DiffInsert
  THEN SemanticOverlapLoop(
         SemanticCarve(m.diffs, m.pointer,
                       DiffCommonOverlap(At(m.diffs, m.pointer - 1).Text,
                                         At(m.diffs, m.pointer).Text),
                       DiffCommonOverlap(At(m.diffs, m.pointer).Text,
                                         At(m.diffs, m.pointer - 1).Text)))
  ELSE SemanticOverlapLoop([m EXCEPT !.pointer = @ + 1])

\* DiffCleanupSemantic after its first loop: normalize, then find overlaps
SemanticFinish(merged) ==
  IF merged.panic THEN Panic
  ELSE IF DiffCleanupSemanticLossless(merged.val).panic THEN Panic
  ELSE Ok(SemanticOverlapLoop([diffs |-> DiffCleanupSemanticLossless(merged.val).val,
                               pointer |-> 1]))

SemanticNormalize(m) ==
  SemanticFinish(IF m.changes THEN DiffCleanupMerge(m.diffs) ELSE Ok(m.diffs))

\* DiffCleanupSemantic
DiffCleanupSemantic(diffs) ==
  SemanticNormalize(SemanticLoop([diffs |-> diffs, pointer |-> 0, equalities |-> <<>>,
                                  lastequality |-> <<>>, changes |-> FALSE,
                                  length_insertions1 |-> 0, length_deletions1 |-> 0,
                                  length_insertions2 |-> 0, length_deletions2 |-> 0]))

(***************************************************************************)
(* DiffHalfMatch                                                           *)
(***************************************************************************)
\* The loop of diffHalfMatchI over the places j of the seed in s.  best is
\* <<>> or <<best_longtext_a, best_longtext_b, best_shorttext_a,
\* best_shorttext_b, best_common>>.
RECURSIVE HalfMatchLoop(_, _, _, _, _, _)
HalfMatchLoop(l, s, i, seed, j, best) ==
  IF j = -1 THEN best
  ELSE LET prefixLength == DiffCommonPrefix(From(l, i), From(s, j))
           suffixLength == DiffCommonSuffix(Slice(l, 0, i), Slice(s, 0, j))
           better == Len(best[5]) < suffixLength + prefixLength
           best1 == IF better
                    THEN <<Slice(l, 0, i - suffixLength), From(l, i + prefixLength),
                           Slice(s, 0, j - suffixLength), From(s, j + prefixLength),
                           Slice(s, j - suffixLength, j) \o Slice(s, j, j + prefixLength)>>
                    ELSE best
       IN HalfMatchLoop(l, s, i, seed, indexOf(s, seed, j + 1), best1)

\* diffHalfMatchI; <<>> stands for nil
diffHalfMatchI(l, s, i) ==
  LET seed == Slice(l, i, i + (Len(l) \div 4))
      best == HalfMatchLoop(l, s, i, seed, indexOf(s, seed, 0),
                            <<<<>>, <<>>, <<>>, <<>>, <<>>>>)
  IN IF Len(best[5]) * 2 >= Len(l) THEN best ELSE <<>>

\* The better of the two half matches of DiffHalfMatch, in the order of
\* text1 and text2 (swap: text1 is not the longer text).
HalfMatchChoose(hm1, hm2, swap) ==
  LET hm == IF hm2 = <<>> THEN hm1
            ELSE IF hm1 = <<>> THEN hm2
            ELSE IF Len(hm1[5]) > Len(hm2[5]) THEN hm1 ELSE hm2
  IN IF hm = <<>> THEN <<>>
     ELSE IF ~swap THEN hm
     ELSE <<hm[3], hm[4], hm[1], hm[2], hm[5]>>

\* DiffHalfMatch; <<>> stands for nil
DiffHalfMatch(dmp, text1, text2) ==
  IF dmp.DiffTimeout <= 0 THEN <<>>
  ELSE
  LET longtext == IF Len(text1) > Len(text2) THEN text1 ELSE text2
      shorttext == IF Len(text1) > Len(text2) THEN text2 ELSE text1
  IN IF Len(longtext) < 4 \/ Len(shorttext) * 2 < Len(longtext) THEN <<>>
     ELSE HalfMatchChoose(diffHalfMatchI(longtext, shorttext, Len(longtext) \div 4),
                          diffHalfMatchI(longtext, shorttext, Len(longtext) \div 2),
                          ~(Len(text1) > Len(text2)))

(***************************************************************************)
(* The clock.  dmp.now is the Unix time read when the call starts; when    *)
(* dmp.late is not -1, the clock has run past now + 1000 * DiffTimeout     *)
(* by the time the loop of the outermost DiffBisect starts turn dmp.late.  *)
(***************************************************************************)
max32 == 2147483647

TimeNowUnix(dmp, d) ==
  IF dmp.late # -1 /\ d >= dmp.late
  THEN dmp.now + dmp.DiffTimeout * 1000 + 1
  ELSE dmp.now

(***************************************************************************)
(* DiffBisect                                                              *)
(***************************************************************************)
\* an argument of the variadic opt: nil, a bool or an int32
OptNil == [nil |-> TRUE, b |-> FALSE, n |-> 0]
OptBool(b) == [nil |-> FALSE, b |-> b, n |-> 0]
OptInt(n) == [nil |-> FALSE, b |-> FALSE, n |-> n]

RECURSIVE DiffMain(_, _, _, _)

\* dmp.DiffMain(text1, text2, checklines, deadline), as the functions
\* DiffMain calls call it in turn
DiffMainWith(dmp, text1, text2, checklines, deadline) ==
  DiffMain(dmp, text1, text2, <<OptBool(checklines), OptInt(deadline)>>)

\* concat of the results of two calls
concat(diffs, diffsb) ==
  IF diffs.panic \/ diffsb.panic THEN Panic
  ELSE Ok(diffs.val \o diffsb.val)

\* diffBisectSplit_
diffBisectSplit_(dmp, text1, text2, x, y, deadline) ==
  IF ~SliceOK(text1, 0, x) \/ ~SliceOK(text2, 0, y) THEN Panic
  ELSE concat(DiffMainWith(dmp, Slice(text1, 0, x), Slice(text2, 0, y), FALSE, deadline),
              DiffMainWith(dmp, From(text1, x), From(text2, y), FALSE, deadline))

\* whether i is an index of the arrays v1 and v2 of c
VIndexOK(c, i) == 0 <= i /\ i < c.v_length

\* The snake: the number of steps along the diagonal from (x, y) of texts
\* a and b read forwards (rev = FALSE) or backwards, or -1 when the code
\* indexes a text outside its bounds.
RECURSIVE Snake(_, _, _, _, _)
Snake(a, b, x, y, rev) ==
  IF ~(x < Len(a) /\ y < Len(b)) THEN 0
  ELSE IF x < 0 \/ y < 0 THEN -1
  ELSE LET same == IF rev THEN At(a, Len(a) - x - 1) = At(b, Len(b) - y - 1)
                   ELSE At(a, x) = At(b, y)
       IN IF ~same THEN 0
          ELSE LET rest == Snake(a, b, x + 1, y + 1, rev)
               IN IF rest = -1 THEN -1 ELSE rest + 1

\* One turn of the loop over k1 (the front path).  c holds what DiffBisect
\* computes once, b the variables its loops change; b.status is "run",
\* "split" (overlap found at b.x, b.y) or "panic".
FrontStep(c, b, d, k1) ==
  LET k1_offset == c.v_offset + k1
      useUp == k1 = -d \/ (k1 # d /\ At(b.v1, k1_offset - 1) < At(b.v1, k1_offset + 1))
      readsOK == /\ (k1 # -d /\ k1 # d) => (VIndexOK(c, k1_offset - 1) /\ VIndexOK(c, k1_offset + 1))
                 /\ k1 = -d => VIndexOK(c, k1_offset + 1)
                 /\ (k1 # -d /\ k1 = d) => VIndexOK(c, k1_offset - 1)
                 /\ VIndexOK(c, k1_offset)
  IN IF ~readsOK THEN [b EXCEPT !.status = "panic", !.where = "v"]
     ELSE
     LET x0 == IF useUp THEN At(b.v1, k1_offset + 1) ELSE At(b.v1, k1_offset - 1) + 1
         run == Snake(c.text1, c.text2, x0, x0 - k1, FALSE)
         x1 == x0 + run
         y1 == x1 - k1
         b1 == [b EXCEPT !.v1[k1_offset + 1] = x1]
         k2_offset == c.v_offset + c.delta - k1
     IN IF run = -1 THEN [b EXCEPT !.status = "panic", !.where = "text"]
        ELSE IF x1 > c.text1_length THEN [b1 EXCEPT !.k1end = @ + 2]
        ELSE IF y1 > c.text2_length THEN [b1 EXCEPT !.k1start = @ + 2]
        ELSE IF c.front /\ k2_offset >= 0 /\ k2_offset < c.v_length
                /\ At(b1.v2, k2_offset) # -1
                /\ x1 >= c.text1_length - At(b1.v2, k2_offset)
        THEN [b1 EXCEPT !.status = "split", !.x = x1, !.y = y1]
        ELSE b1

RECURSIVE FrontLoop(_, _, _, _)
FrontLoop(c, b, d, k1) ==
  IF b.status # "run" \/ ~(k1 <= d - b.k1end) THEN b
  ELSE FrontLoop(c, FrontStep(c, b, d, k1), d, k1 + 2)

\* One turn of the loop over k2 (the reverse path).
ReverseStep(c, b, d, k2) ==
  LET k2_offset == c.v_offset + k2
      useUp == k2 = -d \/ (k2 # d /\ At(b.v2, k2_offset - 1) < At(b.v2, k2_offset + 1))
      readsOK == /\ (k2 # -d /\ k2 # d) => (VIndexOK(c, k2_offset - 1) /\ VIndexOK(c, k2_offset + 1))
                 /\ k2 = -d => VIndexOK(c, k2_offset + 1)
                 /\ (k2 # -d /\ k2 = d) => VIndexOK(c, k2_offset - 1)
                 /\ VIndexOK(c, k2_offset)
  IN IF ~readsOK THEN [b EXCEPT !.status = "panic", !.where = "v"]
     ELSE
     LET x0 == IF useUp THEN At(b.v2, k2_offset + 1) ELSE At(b.v2, k2_offset - 1) + 1
         run == Snake(c.text1, c.text2, x0, x0 - k2, TRUE)
         x2 == x0 + run
         y2 == x2 - k2
         b1 == [b EXCEPT !.v2[k2_offset + 1] = x2]
         k1_offset == c.v_offset + c.delta - k2
     IN IF run = -1 THEN [b EXCEPT !.status = "panic", !.where = "text"]
        ELSE IF x2 > c.text1_length THEN [b1 EXCEPT !.k2end = @ + 2]
        ELSE IF y2 > c.text2_length THEN [b1 EXCEPT !.k2start = @ + 2]
        ELSE IF ~c.front /\ k1_offset >= 0 /\ k1_offset < c.v_length
                /\ At(b1.v1, k1_offset) # -1
                /\ At(b1.v1, k1_offset) >= c.text1_length - x2
        THEN LET x1 == At(b1.v1, k1_offset)
             IN [b1 EXCEPT !.status = "split", !.x = x1,
                           !.y = c.v_offset + x1 - k1_offset]
        ELSE b1

RECURSIVE ReverseLoop(_, _, _, _)
ReverseLoop(c, b, d, k2) ==
  IF b.status # "run" \/ ~(k2 <= d - b.k2end) THEN b
  ELSE ReverseLoop(c, ReverseStep(c, b, d, k2), d, k2 + 2)

\* The loop over d.  It ends with status "run" when the deadline is reached
\* or d has reached max_d.
RECURSIVE BisectLoop(_, _, _, _, _)
BisectLoop(dmp, c, b, d, deadline) ==
  IF b.status # "run" \/ ~(d < c.max_d) THEN b
  ELSE IF TimeNowUnix(dmp, d) > deadline THEN b
  ELSE LET b1 == FrontLoop(c, b, d, -d + b.k1start)
           b2 == IF b1.status = "run" THEN ReverseLoop(c, b1, d, -d + b1.k2start) ELSE b1
       IN BisectLoop(dmp, c, b2, d + 1, deadline)

\* what DiffBisect computes before its loop
BisectStart(text1, text2) ==
  LET max_d == Len(text1) + (Len(text2) \div 2)
  IN [text1 |-> text1, text2 |-> text2,
      text1_length |-> Len(text1), text2_length |-> Len(text2),
      max_d |-> max_d, v_offset |-> max_d, v_length |-> 2 * max_d,
      delta |-> Len(text1) - Len(text2),
      front |-> (Len(text1) - Len(text2)) % 2 # 0]

\* The variables of DiffBisect when its loop over d ends; where tells what a
\* panic indexed out of range: "v" for v1 or v2, "text" for a text.
BisectEnd(dmp, text1, text2, deadline) ==
  LET c == BisectStart(text1, text2)
      zeros == [i \in 1..c.v_length |-> 0]
      b == [v1 |-> zeros, v2 |-> zeros,
            k1start |-> 0, k1end |-> 0, k2start |-> 0, k2end |-> 0,
            status |-> "run", where |-> "", x |-> 0, y |-> 0]
  IN IF ~VIndexOK(c, c.v_offset + 1)
     THEN [b EXCEPT !.status = "panic", !.where = "v"]
     ELSE BisectLoop(dmp, c, b, 0, deadline)

\* what DiffBisect returns when its loop over d has ended with the variables b
BisectResult(dmp, text1, text2, deadline, b) ==
  IF b.status = "panic" THEN Panic
  ELSE IF b.status = "split"
  THEN diffBisectSplit_(dmp, text1, text2, b.x, b.y, deadline)
  ELSE Ok(<<Diff(DiffDelete, text1), Diff(DiffInsert, text2)>>)

\* DiffBisect
DiffBisect(dmp, text1, text2, deadline) ==
  BisectResult(dmp, text1, text2, deadline, BisectEnd(dmp, text1, text2, deadline))

(***************************************************************************)
(* DiffMain                                                                *)
(***************************************************************************)
\* the texts longer than this are diffed line by line when checklines is set
LineModeMin == 100

RECURSIVE diffLineMode(_, _, _, _)

\* diffCompute_ once no speedup applies: hm is the result of DiffHalfMatch
diffComputeSplit(dmp, text1, text2, checklines, deadline, hm) ==
  IF hm # <<>>
  THEN concat(concat(DiffMainWith(dmp, hm[1], hm[3], checklines, deadline),
                     Ok(<<Diff(DiffEqual, hm[5])>>)),
              DiffMainWith(dmp, hm[2], hm[4], checklines, deadline))
  ELSE IF checklines /\ Len(text1) > LineModeMin /\ Len(text2) > LineModeMin
  THEN diffLineMode(dmp, text1, text2, deadline)
  ELSE DiffBisect(dmp, text1, text2, deadline)

\* diffCompute_ when the shorter text lies at index i in the longer one
diffComputeInside(text1, text2, longtext, shorttext, i) ==
  LET op == IF Len(text1) > Len(text2) THEN DiffDelete ELSE DiffInsert
  IN Ok(<<Diff(op, Slice(longtext, 0, i)),
          Diff(DiffEqual, shorttext),
          Diff(op, From(longtext, i + Len(shorttext)))>>)

\* diffCompute_
diffCompute_(dmp, text1, text2, checklines, deadline) ==
  IF Len(text1) = 0 THEN Ok(<<Diff(DiffInsert, text2)>>)
  ELSE IF Len(text2) = 0 THEN Ok(<<Diff(DiffInsert, text1)>>)
  ELSE
  LET longtext == IF Len(text1) > Len(text2) THEN text1 ELSE text2
      shorttext == IF Len(text1) > Len(text2) THEN text2 ELSE text1
  IN IF StringsIndex(longtext, shorttext) # -1
     THEN diffComputeInside(text1, text2, longtext, shorttext,
                            StringsIndex(longtext, shorttext))
     ELSE IF Len(shorttext) = 1
     THEN Ok(<<Diff(DiffDelete, text1), Diff(DiffInsert, text2)>>)
     ELSE diffComputeSplit(dmp, text1, text2, checklines, deadline,
                           DiffHalfMatch(dmp, text1, text2))

\* the checklines DiffMain runs with, called with two options or none
DiffMainChecklines(opt) ==
  IF Len(opt) > 0 /\ ~opt[1].nil THEN opt[1].b ELSE TRUE

\* the deadline DiffMain runs with, called with two options or none: the
\* variable is assigned only when opt[1] is nil
DiffMainDeadline(dmp, opt) ==
  IF Len(opt) > 0 /\ opt[2].nil
  THEN IF dmp.DiffTimeout <= 0 THEN max32
       ELSE dmp.now + dmp.DiffTimeout * 1000
  ELSE 0

\* DiffMain once diffCompute_ has returned middle: the prefix and the suffix
\* are restored and the result is merged
DiffMainRestore(commonprefix, middle, commonsuffix) ==
  IF middle.panic THEN Panic
  ELSE DiffCleanupMerge(
         (IF Len(commonprefix) > 0 THEN <<Diff(DiffEqual, commonprefix)>> ELSE <<>>)
         \o middle.val
         \o (IF Len(commonsuffix) > 0 THEN <<Diff(DiffEqual, commonsuffix)>> ELSE <<>>))

\* DiffMain(text1, text2, opt...)
DiffMain(dmp, text1, text2, opt) ==
  IF Len(opt) = 1 THEN Panic   \* opt[1] is read whenever opt is not nil
  ELSE
  LET checklines == DiffMainChecklines(opt)
      deadline == DiffMainDeadline(dmp, opt)
  IN IF text1 = text2
     THEN Ok(IF Len(text1) > 0 THEN <<Diff(DiffEqual, text1)>> ELSE <<>>)
     ELSE
     LET prefixlength == DiffCommonPrefix(text1, text2)
         commonprefix == Slice(text1, 0, prefixlength)
         t1 == From(text1, prefixlength)
         t2 == From(text2, prefixlength)
         suffixlength == DiffCommonSuffix(t1, t2)
         commonsuffix == From(t1, Len(t1) - suffixlength)
     IN DiffMainRestore(commonprefix,
                        diffCompute_(dmp, Slice(t1, 0, Len(t1) - suffixlength),
                                     Slice(t2, 0, Len(t2) - suffixlength),
                                     checklines, deadline),
                        commonsuffix)

(***************************************************************************)
(* diffLineMode                                                            *)
(***************************************************************************)
\* The loop of diffLinesToCharsMunge: m holds the runes written so far, as
\* the bytes of string(runes), and lineArray; lineHash maps the lines of
\* lineArray from index 1 on to their indices.
RECURSIVE diffLinesToCharsLoop(_, _, _, _)
diffLinesToCharsLoop(text, lineStart, lineEnd, m) ==
  IF ~(lineEnd < Len(text) - 1) THEN m
  ELSE LET found == indexOf(text, <<Ascii.lf>>, lineStart)
           newEnd == IF found = -1 THEN Len(text) - 1 ELSE found
           line == Slice(text, lineStart, newEnd + 1)
           known == {i \in 1..(Len(m.lineArray) - 1) : At(m.lineArray, i) = line}
       IN IF known # {}
          THEN diffLinesToCharsLoop(text, newEnd + 1, newEnd,
                 [m EXCEPT !.chars = @ \o RuneString(CHOOSE i \in known : TRUE)])
          ELSE diffLinesToCharsLoop(text, newEnd + 1, newEnd,
                 [chars |-> m.chars \o RuneString(Len(m.lineArray)),
                  lineArray |-> Append(m.lineArray, line)])

\* diffLinesToCharsMunge
diffLinesToCharsMunge(text, lineArray) ==
  diffLinesToCharsLoop(text, 0, -1, [chars |-> <<>>, lineArray |-> lineArray])

\* DiffLinesToChars: [chars1, chars2, lineArray]
DiffLinesToChars(text1, text2) ==
  LET m1 == diffLinesToCharsMunge(text1, <<<<>>>>)
      m2 == diffLinesToCharsMunge(text2, m1.lineArray)
  IN [chars1 |-> m1.chars, chars2 |-> m2.chars, lineArray |-> m2.lineArray]

\* DiffCharsToLines: every byte of every text indexes lineArray, and the
\* text that is joined is assigned to the copy of the diff the range loop
\* makes, so the slice is returned as it was
DiffCharsToLines(diffs, lineArray) ==
  IF \E i \in DOMAIN diffs : \E y \in DOMAIN diffs[i].Text :
        diffs[i].Text[y] >= Len(lineArray)
  THEN Panic
  ELSE Ok(diffs)

\* The slice of diffLineMode after its call of DiffCleanupSemantic, whose
\* result it drops.  The slice comes from DiffMain with room for one more
\* element, so the equality DiffCleanupSemantic carves between a deletion
\* and an insertion is written into its array.  This holds for slices of at
\* most 2 elements, where DiffCleanupSemantic does nothing else.
LineModeCleaned(diffs, cleaned) == Slice(cleaned.val, 0, Len(diffs))

\* The array of the slice diffs after diffs := splice(diffs, index, amount):
\* the tail moves down and the last amount elements stay as they were
LineModeSpliced(diffs, index, amount) ==
  [j \in 1..Len(diffs) |->
     IF j + amount <= Len(diffs) /\ j > index THEN diffs[j + amount] ELSE diffs[j]]

\* The array after the calls splice(diffs, pointer, 0, a[j]) for j from
\* Len(a) - 1 down to 0, on the inner slice of length n: each writes a[j] at
\* pointer and moves the elements up to index n one place up; the results
\* are dropped, so the inner slice keeps its length
RECURSIVE LineModeInsert(_, _, _, _, _)
LineModeInsert(diffs, pointer, n, a, j) ==
  IF j < 0 THEN diffs
  ELSE LineModeInsert(
         [i \in 1..Len(diffs) |->
            IF i = pointer + 1 THEN At(a, j)
            ELSE IF i > pointer + 1 /\ i <= n + 1 THEN diffs[i - 1]
            ELSE diffs[i]],
         pointer, n, a, j - 1)

\* One turn of the loop of diffLineMode at an equality after at least one
\* deletion and one insertion, a being the result of the call of DiffMain
LineModeMerge(m, a) ==
  LET amount == m.count_delete + m.count_insert
      index == m.pointer - amount
  IN IF index < 0 \/ a.panic THEN [m EXCEPT !.status = "panic"]
     ELSE [m EXCEPT !.diffs = LineModeInsert(LineModeSpliced(m.diffs, index, amount),
                                             index, Len(m.diffs) - amount,
                                             a.val, Len(a.val) - 1),
                    !.pointer = index + Len(a.val)]

LineModeRediff(dmp, m, deadline) ==
  LineModeMerge(m, DiffMainWith(dmp, m.text_delete, m.text_insert, FALSE, deadline))

\* The loop of diffLineMode; the counters and the texts are never reset
RECURSIVE LineModeLoop(_, _, _)
LineModeLoop(dmp, m, deadline) ==
  IF m.status # "run" \/ ~(m.pointer < Len(m.diffs)) THEN m
  ELSE LET d == At(m.diffs, m.pointer)
           m1 == IF d.Type = DiffInsert
                 THEN [m EXCEPT !.count_insert = @ + 1, !.text_insert = @ \o d.Text]
                 ELSE IF d.Type = DiffDelete
                 THEN [m EXCEPT !.count_delete = @ + 1, !.text_delete = @ \o d.Text]
                 ELSE IF m.count_delete >= 1 /\ m.count_insert >= 1
                 THEN LineModeRediff(dmp, m, deadline)
                 ELSE m
       IN LineModeLoop(dmp, [m1 EXCEPT !.pointer = @ + 1], deadline)

\* return diffs[:len(diffs)-1], m being the variables when the loop ends
LineModeReturn(m) ==
  IF m.status = "panic" THEN Panic
  ELSE Ok(Slice(m.diffs, 0, Len(m.diffs) - 1))

\* diffLineMode from its call of DiffCleanupSemantic on, whose result is cleaned
LineModeRun(dmp, diffs, cleaned, deadline) ==
  IF cleaned.panic THEN Panic
  ELSE LineModeReturn(
         LineModeLoop(dmp,
           [diffs |-> Append(LineModeCleaned(diffs, cleaned), Diff(DiffEqual, <<>>)),
            pointer |-> 0, count_delete |-> 0, count_insert |-> 0,
            text_delete |-> <<>>, text_insert |-> <<>>, status |-> "run"],
           deadline))

\* diffLineMode from its call of DiffCharsToLines on, diffs being the result
\* of DiffMain for the encoded texts
LineModeDecode(dmp, lineArray, diffs, deadline) ==
  IF diffs.panic THEN Panic
  ELSE IF DiffCharsToLines(diffs.val, lineArray).panic THEN Panic
  ELSE LineModeRun(dmp, diffs.val, DiffCleanupSemantic(diffs.val), deadline)

\* diffLineMode
diffLineMode(dmp, text1, text2, deadline) ==
  LET c == DiffLinesToChars(text1, text2)
  IN LineModeDecode(dmp, c.lineArray,
                    DiffMainWith(dmp, c.chars1, c.chars2, FALSE, deadline),
                    deadline)

(***************************************************************************)
(* DiffLevenshtein                                                         *)
(***************************************************************************)
\* The loop of DiffLevenshtein as it would be without the reset of the two
\* counters at an equality.
RECURSIVE LevenshteinNoReset(_, _, _, _, _)
LevenshteinNoReset(diffs, i, levenshtein, insertions, deletions) ==
  IF i > Len(diffs) THEN levenshtein + Max(insertions, deletions)
  ELSE IF diffs[i].Type = DiffInsert
  THEN LevenshteinNoReset(diffs, i + 1, levenshtein, insertions + Len(diffs[i].Text), deletions)
  ELSE IF diffs[i].Type = DiffDelete
  THEN LevenshteinNoReset(diffs, i + 1, levenshtein, insertions, deletions + Len(diffs[i].Text))
  ELSE LevenshteinNoReset(diffs, i + 1, levenshtein + Max(insertions, deletions),
                          insertions, deletions)

\* The loop of DiffLevenshtein from the i-th diff on (i counts from 1).
RECURSIVE LevenshteinLoop(_, _, _, _, _)
LevenshteinLoop(diffs, i, levenshtein, insertions, deletions) ==
  IF i > Len(diffs) THEN levenshtein + Max(insertions, deletions)
  ELSE IF diffs[i].Type = DiffInsert
  THEN LevenshteinLoop(diffs, i + 1, levenshtein, insertions + Len(diffs[i].Text), deletions)
  ELSE IF diffs[i].Type = DiffDelete
  THEN LevenshteinLoop(diffs, i + 1, levenshtein, insertions, deletions + Len(diffs[i].Text))
  ELSE LevenshteinLoop(diffs, i + 1, levenshtein + Max(insertions, deletions), 0, 0)

DiffLevenshtein(diffs) == LevenshteinLoop(diffs, 1, 0, 0, 0)

(***************************************************************************)
(* Escaping (net/url) and the conversions of numbers                       *)
(***************************************************************************)
\* url.QueryEscape: letters, digits and - _ . ~ are left alone, a space
\* becomes +, any other byte %XX in upper-case hexadecimal
RECURSIVE QueryEscape(_)
QueryEscape(text) ==
  LET HexDigit(n) == IF n < 10 THEN 48 + n ELSE 55 + n
      Unreserved(c) ==
        \/ (48 <= c /\ c <= 57) \/ (65 <= c /\ c <= 90) \/ (97 <= c /\ c <= 122)
        \/ c \in {45, 95, 46, 126}
  IN
  IF text = <<>> THEN <<>>
  ELSE LET c == Head(text)
       IN (IF Unreserved(c) THEN <<c>>
           ELSE IF c = Ascii.space THEN <<Ascii.plus>>
           ELSE <<Ascii.pct, HexDigit(c \div 16), HexDigit(c % 16)>>)
          \o QueryEscape(Tail(text))

\* url.QueryUnescape: [err, val]
RECURSIVE QueryUnescape(_)
QueryUnescape(text) ==
  LET IsHex(c) == (48 <= c /\ c <= 57) \/ (65 <= c /\ c <= 70) \/ (97 <= c /\ c <= 102)
      HexValue(c) == IF c <= 57 THEN c - 48 ELSE IF c <= 70 THEN c - 55 ELSE c - 87
  IN
  IF text = <<>> THEN [err |-> FALSE, val |-> <<>>]
  ELSE IF Head(text) = Ascii.pct
  THEN IF Len(text) < 3 \/ ~IsHex(text[2]) \/ ~IsHex(text[3])
       THEN [err |-> TRUE, val |-> <<>>]
       ELSE LET rest == QueryUnescape(SubSeq(text, 4, Len(text)))
            IN IF rest.err THEN rest
               ELSE [err |-> FALSE,
                     val |-> <<16 * HexValue(text[2]) + HexValue(text[3])>> \o rest.val]
  ELSE LET rest == QueryUnescape(Tail(text))
       IN IF rest.err THEN rest
          ELSE [err |-> FALSE,
                val |-> <<IF Head(text) = Ascii.plus THEN Ascii.space ELSE Head(text)>>
                        \o rest.val]

\* strings.Replace(text, <<old>>, new, -1) for a one-byte old
RECURSIVE ReplaceByte(_, _, _)
ReplaceByte(text, old, new) ==
  IF text = <<>> THEN <<>>
  ELSE (IF Head(text) = old THEN new ELSE <<Head(text)>>) \o ReplaceByte(Tail(text), old, new)

\* the pairs of the replacer unescaper: %21 ! %7e ~ %27 ' %28 ( %29 ", -1)"
\* %3b ; %2f / %3f ? %3a : %40 @ %26 & %3d = %2b + %24 $ %2c , %23 #
UnescaperPairs ==
  { <<<<37, 50, 49>>, <<33>>>>, <<<<37, 55, 101>>, <<126>>>>,
    <<<<37, 50, 55>>, <<39>>>>, <<<<37, 50, 56>>, <<40>>>>,
    <<<<37, 50, 57>>, <<44, 32, 45, 49, 41>>>>, <<<<37, 51, 98>>, <<59>>>>,
    <<<<37, 50, 102>>, <<47>>>>, <<<<37, 51, 102>>, <<63>>>>,
    <<<<37, 51, 97>>, <<58>>>>, <<<<37, 52, 48>>, <<64>>>>,
    <<<<37, 50, 54>>, <<38>>>>, <<<<37, 51, 100>>, <<61>>>>,
    <<<<37, 50, 98>>, <<43>>>>, <<<<37, 50, 52>>, <<36>>>>,
    <<<<37, 50, 99>>, <<44>>>>, <<<<37, 50, 51>>, <<35>>>> }

\* unescaper.Replace
RECURSIVE UnescaperReplace(_)
UnescaperReplace(text) ==
  IF text = <<>> THEN <<>>
  ELSE LET hit == {p \in UnescaperPairs : HasPrefix(text, p[1])}
       IN IF hit = {} THEN <<Head(text)>> \o UnescaperReplace(Tail(text))
          ELSE (CHOOSE p \in hit : TRUE)[2] \o UnescaperReplace(SubSeq(text, 4, Len(text)))

\* strconv.ParseInt(text, 10, 0): [err, n]
RECURSIVE ParseDigits(_, _)
ParseDigits(text, acc) ==
  IF text = <<>> THEN [err |-> FALSE, n |-> acc]
  ELSE IF Head(text) < 48 \/ Head(text) > 57 THEN [err |-> TRUE, n |-> 0]
  ELSE ParseDigits(Tail(text), 10 * acc + (Head(text) - 48))

ParseInt(text) ==
  IF text = <<>> THEN [err |-> TRUE, n |-> 0]
  ELSE IF Head(text) \in {Ascii.plus, Ascii.minus}
  THEN IF Tail(text) = <<>> THEN [err |-> TRUE, n |-> 0]
       ELSE LET r == ParseDigits(Tail(text), 0)
            IN IF Head(text) = Ascii.minus /\ ~r.err THEN [err |-> FALSE, n |-> 0 - r.n] ELSE r
  ELSE ParseDigits(text, 0)

\* strings.Split(text, <<sep>>) for a one-byte sep
RECURSIVE SplitByte(_, _, _)
SplitByte(text, sep, cur) ==
  IF text = <<>> THEN <<cur>>
  ELSE IF Head(text) = sep THEN <<cur>> \o SplitByte(Tail(text), sep, <<>>)
  ELSE SplitByte(Tail(text), sep, Append(cur, Head(text)))

(***************************************************************************)
(* DiffToDelta and DiffFromDelta                                           *)
(***************************************************************************)
\* the text DiffToDelta writes for the diffs, before the replacements
RECURSIVE DeltaTokens(_)
DeltaTokens(diffs) ==
  IF diffs = <<>> THEN <<>>
  ELSE LET d == Head(diffs)
       IN (IF d.Type = DiffInsert THEN <<Ascii.plus>> \o QueryEscape(d.Text)
           ELSE IF d.Type = DiffDelete THEN <<Ascii.minus>> \o RuneString(Len(d.Text))
           ELSE <<Ascii.eq>> \o RuneString(Len(d.Text)))
          \o <<Ascii.tab>> \o DeltaTokens(Tail(diffs))

\* DiffToDelta
DiffToDelta(diffs) ==
  LET delta == ReplaceByte(DeltaTokens(diffs), Ascii.plus, <<Ascii.space>>)
  IN IF Len(delta) # 0 THEN UnescaperReplace(Slice(delta, 0, Len(delta) - 1))
     ELSE delta

\* The loop of DiffFromDelta over the tokens from the i-th on.  The case
\* '-' has an empty body (Go does not fall through), so a '-' token adds
\* nothing.  log.Fatal and a slice out of bounds end the process.
RECURSIVE FromDeltaLoop(_, _, _, _, _)
FromDeltaLoop(text1, tokens, i, pointer, diffs) ==
  IF i > Len(tokens)
  THEN IF pointer # Len(text1) THEN Panic ELSE Ok(diffs)
  ELSE LET token == tokens[i]
       IN IF Len(token) = 0 THEN FromDeltaLoop(text1, tokens, i + 1, pointer, diffs)
          ELSE LET param == Tail(token)
               IN IF Head(token) = Ascii.plus
                  THEN LET u == QueryUnescape(ReplaceByte(param, Ascii.plus, <<37, 50, 98>>))
                       IN FromDeltaLoop(text1, tokens, i + 1, pointer,
                                        Append(diffs, Diff(DiffInsert, u.val)))
                  ELSE IF Head(token) = Ascii.minus
                  THEN FromDeltaLoop(text1, tokens, i + 1, pointer, diffs)
                  ELSE IF Head(token) = Ascii.eq
                  THEN LET r == ParseInt(param)
                       IN IF r.err \/ r.n < 0 THEN Panic
                          ELSE IF ~SliceOK(text1, pointer, r.n) THEN Panic
                          ELSE FromDeltaLoop(text1, tokens, i + 1, pointer + r.n,
                                             Append(diffs, Diff(DiffEqual, Slice(text1, pointer, r.n))))
                  ELSE Panic

\* DiffFromDelta
DiffFromDelta(text1, delta) ==
  FromDeltaLoop(text1, SplitByte(delta, Ascii.tab, <<>>), 1, 0, <<>>)

(***************************************************************************)
(* MatchMain and MatchBitap                                                *)
(***************************************************************************)
\* MatchBitap.  With an empty pattern the loop over d has no turn and
\* best_loc = -1 is returned.  Otherwise its first turn allocates rd as
\* []int{}, of length 0, and writes rd[finish+1]: the index is out of range
\* whatever the binary search of that turn has found, and nothing before
\* that write can fail.
MatchBitap(text, pattern, loc) ==
  IF Len(pattern) = 0 THEN Ok(-1) ELSE Panic

\* MatchMain.  The perfect-match test slices text[loc:len(pattern)].
MatchMain(text, pattern, loc) ==
  LET l == Max(0, Min(loc, Len(text)))
  IN IF text = pattern THEN Ok(0)
     ELSE IF Len(text) = 0 THEN Ok(-1)
     ELSE IF l + Len(pattern) <= Len(text) /\ ~SliceOK(text, l, Len(pattern)) THEN Panic
     ELSE IF l + Len(pattern) <= Len(text) /\ Slice(text, l, Len(pattern)) = pattern
     THEN Ok(l)
     ELSE MatchBitap(text, pattern, l)

(***************************************************************************)
(* Patches.  A []Patch is a slice [list, len] of an array of the heap      *)
(* h.lists; the capacity of the slice is the length of that array.  The    *)
(* field diffs of a Patch is the number of an array of h.arrays, 0 for     *)
(* nil.  Two slices or two patches that name the same array share it.      *)
(***************************************************************************)
\* the zero value Patch{}
ZeroPatch == [diffs |-> 0, start1 |-> 0, start2 |-> 0, length1 |-> 0, length2 |-> 0]

\* the diffs of the patch p of heap h
DiffsOf(h, p) == IF p.diffs = 0 THEN <<>> ELSE h.arrays[p.diffs]

\* the patches a slice holds, with their diffs, as values
PatchesAt(h, slice) ==
  [i \in 1..slice.len |-> [h.lists[slice.list][i] EXCEPT !.diffs = DiffsOf(h, h.lists[slice.list][i])]]

\* the heap of a caller that holds the patches as its list 1, of capacity
\* len(patches), the diffs of patch i in array i
HeapOf(patches) ==
  [lists |-> <<[i \in 1..Len(patches) |-> [patches[i] EXCEPT !.diffs = i]]>>,
   arrays |-> [i \in 1..Len(patches) |-> patches[i].diffs]]

\* PatchDeepCopy as it would be if it returned the patches it was given
PatchShallowCopy(h, slice) == [h |-> h, slice |-> slice]

\* PatchDeepCopy: a new list, grown by append to the next power of two, of
\* patches with new arrays of diffs
PatchDeepCopy(h, slice) ==
  LET n == slice.len
      cap == CHOOSE c \in {0, 1, 2, 4, 8, 16} : c >= n /\ (c = 0 \/ c < 2 * n)
      base == Len(h.arrays)
      patchesCopy == [i \in 1..cap |->
                        IF i <= n THEN [h.lists[slice.list][i] EXCEPT !.diffs = base + i]
                        ELSE ZeroPatch]
  IN [h |-> [lists |-> Append(h.lists, patchesCopy),
             arrays |-> h.arrays \o [i \in 1..n |-> DiffsOf(h, h.lists[slice.list][i])]],
      slice |-> [list |-> Len(h.lists) + 1, len |-> n]]

\* strconv.FormatInt(x, 10) for x >= 0
RECURSIVE FormatInt(_)
FormatInt(x) ==
  IF x < 10 THEN <<Ascii.zero + x>> ELSE Append(FormatInt(x \div 10), Ascii.zero + (x % 10))

\* PatchAddPadding: the padding it returns.  It changes nothing a patch list
\* holds: its loops and assignments work on copies of the Patch and Diff
\* structs (range variables, patch := patches[0], firstDiff := diffs[0]),
\* and its append writes past the length of the slice of the diffs.
RECURSIVE PatchAddPadding(_, _)
PatchAddPadding(dmp, x) ==
  IF x > dmp.PatchMargin THEN <<>> ELSE FormatInt(x) \o PatchAddPadding(dmp, x + 1)

(***************************************************************************)
(* PatchSplitMax.  The state s of the walk: the heap h, the slice [list,   *)
(* len] the local variable patches holds, the index x, and for the patch   *)
(* being split the array big of its diffs, start1, start2, precontext, the *)
(* patch being built (its diffs a value: a new array) and empty.  status   *)
(* is "run", "panic", or "hang" for a loop that never ends.                *)
(***************************************************************************)
\* one turn of the loop that fills patch from the first diff of bigpatch;
\* no branch removes that diff (the append copies the slice onto itself)
SplitTake(dmp, s) ==
  LET head == s.h.arrays[s.big][1]
      n == Len(head.Text)
      take == Min(n, dmp.MatchMaxBits - s.patch.length1 - dmp.PatchMargin)
  IN IF head.Type = DiffInsert
     THEN \* nothing the loop condition reads changes: patch.diffs grows for ever
          [s EXCEPT !.status = "hang"]
     ELSE IF /\ head.Type = DiffDelete
             /\ Len(s.patch.diffs) = 1
             /\ s.patch.diffs[1].Type = DiffEqual
             /\ n > 2 * dmp.MatchMaxBits
     THEN [s EXCEPT !.patch.length1 = @ + n,
                    !.start1 = @ + n,
                    !.empty = FALSE,
                    !.patch.diffs = Append(@, head)]
     ELSE IF n = 0
     THEN \* an empty text is taken whole, and again, for ever
          [s EXCEPT !.status = "hang"]
     ELSE [s EXCEPT !.patch.length1 = @ + take,
                    !.start1 = @ + take,
                    !.patch.length2 = IF head.Type = DiffEqual THEN @ + take ELSE @,
                    !.start2 = IF head.Type = DiffEqual THEN @ + take ELSE @,
                    !.empty = IF head.Type = DiffEqual THEN @ ELSE FALSE,
                    !.patch.diffs = Append(@, Diff(head.Type, Slice(head.Text, 0, take))),
                    !.h.arrays[s.big][1].Text = IF take = n THEN @ ELSE From(@, take)]

\* for len(bigpatch.diffs) != 0 && patch.length1 < patch_size-dmp.PatchMargin
RECURSIVE SplitFill(_, _)
SplitFill(dmp, s) ==
  IF \/ s.status # "run"
     \/ Len(s.h.arrays[s.big]) = 0
     \/ ~(s.patch.length1 < dmp.MatchMaxBits - dmp.PatchMargin)
  THEN s
  ELSE SplitFill(dmp, SplitTake(dmp, s))

\* the new patch, begun with the precontext
SplitStart(s) ==
  LET n == Len(s.precontext)
  IN [s EXCEPT !.empty = TRUE,
               !.patch = [diffs |-> IF n # 0 THEN <<Diff(DiffEqual, s.precontext)>> ELSE <<>>,
                          start1 |-> s.start1 - n, start2 |-> s.start2 - n,
                          length1 |-> n, length2 |-> n]]

\* the head context of the next patch and the end context of this one
SplitContext(dmp, s) ==
  LET text2 == DiffText2(s.patch.diffs)
      post == Slice(DiffText1(s.h.arrays[s.big]), 0,
                    Min(dmp.PatchMargin, Len(DiffText1(s.h.arrays[s.big]))))
      last == Len(s.patch.diffs)
  IN IF s.status # "run" THEN s
     ELSE [s EXCEPT !.precontext = From(text2, Max(0, Len(text2) - dmp.PatchMargin)),
                    !.patch.length1 = @ + Len(post),
                    !.patch.length2 = @ + Len(post),
                    !.patch.diffs = IF Len(post) = 0 THEN @
                                    ELSE IF last # 0 /\ @[last].Type = DiffEqual
                                    THEN [@ EXCEPT ![last].Text = @ \o post]
                                    ELSE Append(@, Diff(DiffEqual, post))]

\* if !empty { x = x + 1; splice_patch(patches, x, 0, patch) }: the result
\* of the splice is dropped, so patches keeps its length; the splice writes
\* the array patches shares when its capacity holds one more patch
SplitInsert(s) ==
  LET x == s.x + 1
      old == s.h.lists[s.list]
      id == Len(s.h.arrays) + 1
      new == [j \in 1..Len(old) |->
                IF j <= x \/ j > s.len + 1 THEN old[j]
                ELSE IF j = x + 1 THEN [s.patch EXCEPT !.diffs = id]
                ELSE old[j - 1]]
  IN IF s.status # "run" \/ s.empty THEN s
     ELSE IF x > s.len THEN [s EXCEPT !.x = x, !.status = "panic"]
     ELSE IF s.len + 1 > Len(old) THEN [s EXCEPT !.x = x]
     ELSE [s EXCEPT !.x = x,
                    !.h.lists[s.list] = new,
                    !.h.arrays = Append(@, s.patch.diffs)]

\* for len(bigpatch.diffs) != 0: no turn shortens bigpatch.diffs, so the
\* loop ends by a panic only; MaxSplitTurns turns without one stand for a hang
RECURSIVE SplitBig(_, _, _)
SplitBig(dmp, s, n) ==
  IF s.status # "run" \/ s.big = 0 THEN s
  ELSE IF Len(s.h.arrays[s.big]) = 0 THEN s
  ELSE IF n = 0 THEN [s EXCEPT !.status = "hang"]
  ELSE SplitBig(dmp, SplitInsert(SplitContext(dmp, SplitFill(dmp, SplitStart(s)))), n - 1)

\* bigpatch := patches[x]; x = x - 1; patches = splice_patch(patches, x, 1):
\* the patch before the big one is removed, in the shared array
SplitRemove(s) ==
  LET old == s.h.lists[s.list]
      bigpatch == old[s.x + 1]
      x == s.x - 1
  IN IF x < 0 THEN [s EXCEPT !.x = x, !.status = "panic"]
     ELSE [s EXCEPT !.x = x,
                    !.len = @ - 1,
                    !.h.lists[s.list] = [j \in 1..Len(old) |->
                                           IF j <= x \/ j >= s.len THEN old[j] ELSE old[j + 1]],
                    !.big = bigpatch.diffs,
                    !.start1 = bigpatch.start1,
                    !.start2 = bigpatch.start2,
                    !.precontext = <<>>]

\* for x := 0; x < len(patches); x++
RECURSIVE SplitLoop(_, _)
SplitLoop(dmp, s) ==
  IF s.status # "run" \/ ~(s.x < s.len) THEN s
  ELSE IF s.h.lists[s.list][s.x + 1].length1 <= dmp.MatchMaxBits
  THEN SplitLoop(dmp, [s EXCEPT !.x = @ + 1])
  ELSE SplitLoop(dmp, [SplitBig(dmp, SplitRemove(s), MaxSplitTurns) EXCEPT !.x = @ + 1])

PatchSplitMax(dmp, h, slice) ==
  SplitLoop(dmp, [h |-> h, list |-> slice.list, len |-> slice.len, x |-> 0,
                  status |-> "run", big |-> 0, start1 |-> 0, start2 |-> 0,
                  precontext |-> <<>>, patch |-> [ZeroPatch EXCEPT !.diffs = <<>>],
                  empty |-> TRUE])

(***************************************************************************)
(* PatchApply and PatchMake.                                               *)
(***************************************************************************)
\* start_loc of a turn of the loop of PatchApply over the patches, as the
\* calls of MatchMain leave it
ApplyStartLoc(dmp, text, aPatch) ==
  LET text1 == DiffText1(aPatch.diffs)
      expected_loc == aPatch.start2
      n == Len(text1)
      bits == dmp.MatchMaxBits
      start_loc == IF n > bits THEN MatchMain(text, Slice(text1, 0, bits), expected_loc)
                   ELSE MatchMain(text, text1, expected_loc)
      end_loc == MatchMain(text, From(text1, n - bits), expected_loc + n - bits)
  IN IF start_loc.panic \/ ~(n > bits) \/ start_loc.val = -1 THEN start_loc
     ELSE IF end_loc.panic THEN Panic
     ELSE IF end_loc.val = -1 \/ start_loc.val >= end_loc.val THEN Ok(-1)
     ELSE start_loc

\* the first turn of the loop of PatchApply over the patches: where it
\* panics.  results is []bool{}, so the assignment results[x] panics when
\* the calls of MatchMain have returned.
ApplyFirstPatch(dmp, text, aPatch) ==
  IF ApplyStartLoc(dmp, text, aPatch).panic THEN "MatchMain" ELSE "results"

\* PatchApply(patches, text) on the heap h: how the call ends (status
\* "returned", "panic" or "hang", and where), the heap it leaves, and the
\* text and results it returns
PatchApply(dmp, h, slice, text) ==
  LET copy == PatchDeepCopy(h, slice)
      nullPadding == PatchAddPadding(dmp, 1)
      split == PatchSplitMax(dmp, copy.h, copy.slice)
  IN IF slice.len = 0
     THEN [status |-> "returned", where |-> "", h |-> h, text |-> text, results |-> <<>>]
     ELSE IF split.status # "run"
     THEN [status |-> split.status, where |-> "PatchSplitMax", h |-> split.h,
           text |-> <<>>, results |-> <<>>]
     ELSE [status |-> "panic",
           where |-> ApplyFirstPatch(dmp, nullPadding \o text \o nullPadding,
                                     PatchesAt(split.h, copy.slice)[1]),
           h |-> split.h, text |-> <<>>, results |-> <<>>]

\* an argument of PatchMake(opt ...interface{}): a string or a []Diff
ArgString(text) == [kind |-> "string", text |-> text, diffs |-> <<>>]
ArgDiffs(diffs) == [kind |-> "[]Diff", text |-> <<>>, diffs |-> diffs]

\* PatchMake.  opt[0].(string) and opt[1].(string) panic on a []Diff, so
\* patchMake2 is never called; the cleanups before the inner call cannot
\* change how it ends, and are left out.
RECURSIVE PatchMake(_, _)
PatchMake(dmp, opt) ==
  IF Len(opt) = 1
  THEN LET diffs == IF opt[1].kind = "[]Diff" THEN opt[1].diffs ELSE <<>>
       IN PatchMake(dmp, <<ArgString(DiffText1(diffs)), ArgDiffs(diffs)>>)
  ELSE IF Len(opt) = 2
  THEN IF opt[1].kind # "string" \/ opt[2].kind # "string" THEN Panic
       ELSE LET diffs == DiffMain(dmp, opt[1].text, opt[2].text, <<OptBool(TRUE)>>)
            IN IF diffs.panic THEN Panic
               ELSE PatchMake(dmp, <<opt[1], ArgDiffs(diffs.val)>>)
  ELSE IF Len(opt) = 3
  THEN PatchMake(dmp, <<opt[1], opt[3]>>)
  ELSE Ok(<<>>)

(***************************************************************************)
(* Inputs.                                                                 *)
(***************************************************************************)
Types == {DiffDelete, DiffInsert, DiffEqual}
\* the edits and the edit scripts a caller passes to the cleanup passes
Edits == {Diff(t, s) : t \in Types, s \in SeqsUpTo(Alphabet, MaxEditLen)}
EditScripts == SeqsUpTo(Edits, MaxEdits)
\* the texts a caller passes to the diff and to the match
Texts == SeqsUpTo(Alphabet, MaxTextLen)

\* no call made yet
NoResult == <<>>

(***************************************************************************)
(* Specification of the cleanup passes: a caller passes an edit script to  *)
(* one of DiffCleanupMerge, DiffCleanupSemantic and                        *)
(* DiffCleanupSemanticLossless; the result of DiffCleanupMerge is passed   *)
(* to it once more.                                                        *)
(***************************************************************************)
CleanupInit ==
  /\ pc = "ready"
  /\ in \in [op : {"DiffCleanupMerge", "DiffCleanupSemantic", "DiffCleanupSemanticLossless"},
             diffs : EditScripts]
  /\ out = NoResult

CallCleanupMerge ==
  /\ pc = "ready"
  /\ in.op = "DiffCleanupMerge"
  /\ out' = <<DiffCleanupMerge(in.diffs)>>
  /\ pc' = "returned"
  /\ UNCHANGED in

CallCleanupMergeAgain ==
  /\ pc = "returned"
  /\ in.op = "DiffCleanupMerge"
  /\ ~out[1].panic
  /\ out' = Append(out, DiffCleanupMerge(out[1].val))
  /\ pc' = "again"
  /\ UNCHANGED in

CallCleanupSemantic ==
  /\ pc = "ready"
  /\ in.op = "DiffCleanupSemantic"
  /\ out' = <<DiffCleanupSemantic(in.diffs)>>
  /\ pc' = "returned"
  /\ UNCHANGED in

CallCleanupSemanticLossless ==
  /\ pc = "ready"
  /\ in.op = "DiffCleanupSemanticLossless"
  /\ out' = <<DiffCleanupSemanticLossless(in.diffs)>>
  /\ pc' = "returned"
  /\ UNCHANGED in

CleanupNext ==
  \/ CallCleanupMerge \/ CallCleanupMergeAgain
  \/ CallCleanupSemantic \/ CallCleanupSemanticLossless

SpecCleanup == CleanupInit /\ [][CleanupNext]_vars

\* C4: cleanupMerge is idempotent: for every edit script, DiffCleanupMerge
\* returns, and merging its result once more returns that result unchanged.
C4_MergeIdempotent ==
  /\ (pc = "returned" /\ in.op = "DiffCleanupMerge") => ~out[1].panic
  /\ (pc = "again" /\ in.op = "DiffCleanupMerge") => out[2] = out[1]

\* C7: cleanupMerge preserves text1 and text2 of every edit script, also
\* when its second pass slides an edit over a neighbouring equality.
C7_MergeKeepsTexts ==
  (pc = "returned" /\ in.op = "DiffCleanupMerge" /\ ~out[1].panic) =>
     /\ DiffText1(out[1].val) = DiffText1(in.diffs)
     /\ DiffText2(out[1].val) = DiffText2(in.diffs)

\* C8: cleanupSemantic preserves text1 and text2 of every edit script, also
\* when it erases an equality and when it carves a forward or a reverse
\* overlap of a deletion and an insertion into an equality.
C8_SemanticKeepsTexts ==
  (pc = "returned" /\ in.op = "DiffCleanupSemantic" /\ ~out[1].panic) =>
     /\ DiffText1(out[1].val) = DiffText1(in.diffs)
     /\ DiffText2(out[1].val) = DiffText2(in.diffs)

\* C9: cleanupSemanticLossless preserves text1 and text2 of every edit
\* script, also when a flanking equality becomes empty and is dropped.
C9_LosslessKeepsTexts ==
  (pc = "returned" /\ in.op = "DiffCleanupSemanticLossless" /\ ~out[1].panic) =>
     /\ DiffText1(out[1].val) = DiffText1(in.diffs)
     /\ DiffText2(out[1].val) = DiffText2(in.diffs)

(***************************************************************************)
(* Specification of the distance: a caller passes an edit script to        *)
(* DiffLevenshtein.  Only the lengths of the texts count, so the texts are *)
(* made of one letter.                                                     *)
(***************************************************************************)
LevEdits == {Diff(t, s) : t \in Types, s \in SeqsUpTo({Ascii.a}, MaxLevLen)}

LevInit ==
  /\ pc = "ready"
  /\ in \in [op : {"DiffLevenshtein"}, diffs : SeqsUpTo(LevEdits, MaxLevEdits)]
  /\ out = NoResult

CallDiffLevenshtein ==
  /\ pc = "ready"
  /\ in.op = "DiffLevenshtein"
  /\ out' = <<DiffLevenshtein(in.diffs)>>
  /\ pc' = "returned"
  /\ UNCHANGED in

\* PatchDeleteThreshold of createDMP, 0.5, as a fraction
PatchDeleteThreshold == [num |-> 1, den |-> 2]

\* The test of PatchApply on an imperfect match: the patch is dropped when
\* text1 is longer than MatchMaxBits and
\* float64(DiffLevenshtein(diffs)/len(text1)) > PatchDeleteThreshold, the
\* division being the one of int
ApplyTooCorrupted(bits, levenshtein, text1) ==
  /\ Len(text1) > bits
  /\ (levenshtein \div Len(text1)) * PatchDeleteThreshold.den > PatchDeleteThreshold.num

\* PatchApply judges the diff of the text1 it expects and the text it
\* found, with MatchMaxBits as createDMP sets it or small
CallApplyThreshold ==
  /\ pc = "returned"
  /\ in.op = "DiffLevenshtein"
  /\ \E bits \in {2, 32} :
        out' = Append(out, [MatchMaxBits |-> bits,
                            dropped |-> ApplyTooCorrupted(bits, out[1], DiffText1(in.diffs))])
  /\ pc' = "judged"
  /\ UNCHANGED in

LevNext == CallDiffLevenshtein \/ CallApplyThreshold

SpecLev == LevInit /\ [][LevNext]_vars

\* the number of characters of the edits of one type
RECURSIVE CharsOfType(_, _)
CharsOfType(diffs, type) ==
  IF diffs = <<>> THEN 0
  ELSE (IF Head(diffs).Type = type THEN Len(Head(diffs).Text) ELSE 0)
       + CharsOfType(Tail(diffs), type)

MatchInit ==
  /\ pc = "ready"
  /\ in \in [op : {"MatchMain"}, text : Texts, pattern : Texts, loc : -1..(MaxTextLen + 1)]
  /\ out = NoResult

CallMatchMain ==
  /\ pc = "ready"
  /\ in.op = "MatchMain"
  /\ out' = <<MatchMain(in.text, in.pattern, in.loc)>>
  /\ pc' = "returned"
  /\ UNCHANGED in

SpecMatch == MatchInit /\ [][CallMatchMain]_vars

\* C5: when the pattern occurs verbatim in the text at the location asked
\* for, MatchMain returns that location.
C5_MatchFindsVerbatim ==
  (/\ pc = "returned" /\ in.op = "MatchMain"
   /\ 0 <= in.loc /\ in.loc + Len(in.pattern) <= Len(in.text)
   /\ Slice(in.text, in.loc, in.loc + Len(in.pattern)) = in.pattern)
  => out[1] = Ok(in.loc)

(***************************************************************************)
(* Specification of the diff engine: a caller diffs two texts, encodes the *)
(* edit script as a delta and decodes the delta against text1 of the       *)
(* script.                                                                 *)
(***************************************************************************)
\* the configurations and clocks of the diff calls; now is a Unix time of
\* the year 2026
DiffEngines == [DiffTimeout : {0, 1}, now : {1794000000}, late : {-1, 0}]

\* the ways to call DiffMain: no options, checklines alone, checklines and
\* a nil deadline, checklines and a deadline
DiffOpts ==
  {<<>>} \cup {<<OptBool(cl)>> : cl \in BOOLEAN}
         \cup {<<OptBool(cl), OptNil>> : cl \in BOOLEAN}
         \cup {<<OptBool(cl), OptInt(max32)>> : cl \in BOOLEAN}

DiffInit ==
  /\ pc = "ready"
  /\ in \in [op : {"DiffMain"}, dmp : DiffEngines, text1 : Texts, text2 : Texts,
             opt : DiffOpts]
  /\ out = NoResult

CallDiffMain ==
  /\ pc = "ready"
  /\ in.op = "DiffMain"
  /\ out' = <<DiffMain(in.dmp, in.text1, in.text2, in.opt)>>
  /\ pc' = "returned"
  /\ UNCHANGED in

CallDiffToDelta ==
  /\ pc = "returned"
  /\ in.op = "DiffMain"
  /\ ~out[1].panic
  /\ out' = Append(out, DiffToDelta(out[1].val))
  /\ pc' = "encoded"
  /\ UNCHANGED in

CallDiffFromDelta ==
  /\ pc = "encoded"
  /\ in.op = "DiffMain"
  /\ out' = Append(out, DiffFromDelta(DiffText1(out[1].val), out[2]))
  /\ pc' = "decoded"
  /\ UNCHANGED in

DiffNext == CallDiffMain \/ CallDiffToDelta \/ CallDiffFromDelta

Spec == DiffInit /\ [][DiffNext]_vars

\* C1: the edit script DiffMain returns rebuilds both inputs: its
\* equalities and deletions make text1, its equalities and insertions text2.
C1_DiffRebuildsTexts ==
  (pc = "returned" /\ in.op = "DiffMain" /\ ~out[1].panic) =>
     /\ DiffText1(out[1].val) = in.text1
     /\ DiffText2(out[1].val) = in.text2

\* C3: decoding the delta of an edit script of DiffMain against its text1
\* succeeds and returns the edit script.
C3_DeltaRoundTrip ==
  (pc = "decoded" /\ in.op = "DiffMain") => out[3] = Ok(out[1].val)

(***************************************************************************)
(* Specification of the patches: a caller applies a list of patches to a   *)
(* text, or makes the list with PatchMake and applies what it returns.     *)
(***************************************************************************)
\* engines with the default limits and with small ones
PatchEngines ==
  [DiffTimeout : {1}, now : {1794000000}, late : {0},
   MatchMaxBits : {2, 32}, PatchMargin : {1, 4}]

PatchEdits == {Diff(t, s) : t \in Types, s \in SeqsUpTo({Ascii.a}, MaxPatchEditLen)}

\* the patch of the edits es[from+1 .. from+n] of a script, placed after
\* the text the edits before them cover
PatchOf(es, from, n) ==
  [diffs |-> Slice(es, from, from + n),
   start1 |-> Len(DiffText1(Slice(es, 0, from))),
   start2 |-> Len(DiffText1(Slice(es, 0, from))),
   length1 |-> Len(DiffText1(Slice(es, from, from + n))),
   length2 |-> Len(DiffText2(Slice(es, from, from + n)))]

\* the ways to cut a script into n patches: c[i - 1] edits come before patch i
PatchCuts(n) ==
  {c \in [0..n -> 0..MaxPatchEdits] : c[0] = 0 /\ \A i \in 1..n : c[i - 1] <= c[i]}

\* the patches i .. n of the script es cut at c
RECURSIVE PatchListOf(_, _, _, _)
PatchListOf(es, c, i, n) ==
  IF i > n THEN <<>>
  ELSE <<PatchOf(es, c[i - 1], c[i] - c[i - 1])>> \o PatchListOf(es, c, i + 1, n)

\* the lists of n patches that share out the edits of a script in order
PatchListsOf(n) ==
  {PatchListOf(p[1], p[2], 1, n) :
     p \in {q \in SeqsUpTo(PatchEdits, MaxPatchEdits) \X PatchCuts(n) : q[2][n] = Len(q[1])}}

RECURSIVE PatchListsUpTo(_)
PatchListsUpTo(n) == IF n = 0 THEN {<<>>} ELSE PatchListsUpTo(n - 1) \cup PatchListsOf(n)

PatchLists == PatchListsUpTo(MaxPatches)

\* the ways to call PatchMake: no argument, two texts, the diffs, text1 and
\* the diffs, both texts and the diffs
PatchMakeOpts ==
  {<<>>}
  \cup {<<ArgString(t1), ArgString(t2)>> : t1, t2 \in SeqsUpTo(Alphabet, MaxEditLen)}
  \cup {<<ArgDiffs(e)>> : e \in SeqsUpTo(Edits, 1)}
  \cup {<<ArgString(DiffText1(e)), ArgDiffs(e)>> : e \in SeqsUpTo(Edits, 1)}
  \cup {<<ArgString(DiffText1(e)), ArgString(DiffText2(e)), ArgDiffs(e)>> : e \in SeqsUpTo(Edits, 1)}

PatchInit ==
  /\ pc = "ready"
  /\ \/ in \in [op : {"PatchApply"}, dmp : PatchEngines, patches : PatchLists,
                text : SeqsUpTo({Ascii.a}, 1), opt : {<<>>}]
     \/ in \in [op : {"PatchSplitMax", "PatchAddPadding"}, dmp : PatchEngines,
                patches : PatchLists, text : {<<>>}, opt : {<<>>}]
     \/ in \in [op : {"PatchMake"}, dmp : PatchEngines, patches : {<<>>},
                text : {<<>>}, opt : PatchMakeOpts]
  /\ out = NoResult

CallPatchMake ==
  /\ pc = "ready"
  /\ in.op = "PatchMake"
  /\ out' = <<PatchMake(in.dmp, in.opt)>>
  /\ pc' = "made"
  /\ UNCHANGED in

\* the list the caller applies: its own, or the one PatchMake returned
GivenPatches == IF in.op = "PatchMake" THEN out[1].val ELSE in.patches
\* the text the caller applies it to: its own, or the text1 of PatchMake
GivenText ==
  IF Len(in.opt) > 0 /\ in.opt[1].kind = "string" THEN in.opt[1].text ELSE in.text

CallPatchApply ==
  /\ pc = IF in.op = "PatchMake" THEN "made" ELSE "ready"
  /\ in.op = "PatchMake" => ~out[1].panic
  /\ out' = Append(out, PatchApply(in.dmp, HeapOf(GivenPatches),
                                   [list |-> 1, len |-> Len(GivenPatches)], GivenText))
  /\ pc' = "applied"
  /\ UNCHANGED in

\* PatchSplitMax(patches) of the caller's list: how the call ends and the
\* heap it leaves
CallPatchSplitMax ==
  /\ pc = "ready"
  /\ in.op = "PatchSplitMax"
  /\ out' = <<PatchSplitMax(in.dmp, HeapOf(in.patches),
                            [list |-> 1, len |-> Len(in.patches)])>>
  /\ pc' = "split"
  /\ UNCHANGED in

\* PatchAddPadding(patches) of the caller's list: patches[0] of an empty
\* list panics; otherwise the padding is returned and the heap is as it was
CallPatchAddPadding ==
  /\ pc = "ready"
  /\ in.op = "PatchAddPadding"
  /\ out' = <<[status |-> IF Len(in.patches) = 0 THEN "panic" ELSE "returned",
               h |-> HeapOf(in.patches),
               text |-> IF Len(in.patches) = 0 THEN <<>> ELSE PatchAddPadding(in.dmp, 1)]>>
  /\ pc' = "padded"
  /\ UNCHANGED in

PatchNext == CallPatchMake \/ CallPatchApply \/ CallPatchSplitMax \/ CallPatchAddPadding

SpecPatch == PatchInit /\ [][PatchNext]_vars

\* C2: PatchMake(text1, text2) returns a list of patches, and PatchApply of
\* that list to text1 returns text2 with a result true for every patch.
C2_ApplyMadePatches ==
  (in.op = "PatchMake" /\ Len(in.opt) = 2 /\ in.opt[2].kind = "string") =>
     /\ pc = "made" => ~out[1].panic
     /\ pc = "applied" =>
          /\ out[2].status = "returned"
          /\ out[2].text = in.opt[2].text
          /\ \A i \in DOMAIN out[2].results : out[2].results[i]

\* C10: however PatchApply ends, the list the caller passed holds the
\* patches it held before the call: the same start1, start2, length1,
\* length2 and diffs.
C10_ApplyKeepsCallersList ==
  pc = "applied" =>
     PatchesAt(out[Len(out)].h, [list |-> 1, len |-> Len(GivenPatches)]) = GivenPatches

\* C10: a call of PatchApply in which PatchSplitMax changed the patches or
\* the diffs of the list it was given, the copy.
C10_SplitChangedCopy ==
  /\ pc = "applied"
  /\ in.op = "PatchApply"
  /\ Len(out[1].h.lists) = 2
  /\ PatchesAt(out[1].h, [list |-> 2, len |-> Len(in.patches)]) # in.patches

\* the first patch PatchApply tries, and the padded text it tries it on
FirstTried == PatchesAt(out[1].h, [list |-> 2, len |-> Len(in.patches)])[1]
PaddedText == PatchAddPadding(in.dmp, 1) \o in.text \o PatchAddPadding(in.dmp, 1)

\* C11: PatchApply returns, with one result for every patch of the list, in
\* the order of the list.
C11_OneResultPerPatch ==
  (pc = "applied" /\ in.op = "PatchApply") =>
     /\ out[1].status = "returned"
     /\ Len(out[1].results) = Len(in.patches)

\* C12: a patch whose place PatchApply has found (start_loc is not -1) ends
\* applied: the call goes on and its result for that patch is true.
C12_LocatedEndsApplied ==
  (/\ pc = "applied"
   /\ in.op = "PatchApply"
   /\ Len(in.patches) > 0
   /\ out[1].where # "PatchSplitMax"
   /\ ~ApplyStartLoc(in.dmp, PaddedText, FirstTried).panic
   /\ ApplyStartLoc(in.dmp, PaddedText, FirstTried).val # -1) =>
     /\ out[1].status = "returned"
     /\ out[1].results[1]

(***************************************************************************)
(* Specification of the decoder of deltas: a caller passes a text and a    *)
(* delta, well formed or not, to DiffFromDelta.                            *)
(***************************************************************************)
\* the bytes of the deltas: + - = tab 1 2 a
DeltaBytes ==
  {Ascii.plus, Ascii.minus, Ascii.eq, Ascii.tab, Ascii.zero + 1, Ascii.zero + 2, Ascii.a}

DeltaInit ==
  /\ pc = "ready"
  /\ in \in [op : {"DiffFromDelta"}, text1 : SeqsUpTo({Ascii.a}, MaxEditLen),
             delta : SeqsUpTo(DeltaBytes, MaxDeltaLen)]
  /\ out = NoResult

CallDeltaDecode ==
  /\ pc = "ready"
  /\ in.op = "DiffFromDelta"
  /\ out' = <<DiffFromDelta(in.text1, in.delta)>>
  /\ pc' = "returned"
  /\ UNCHANGED in

SpecDelta == DeltaInit /\ [][CallDeltaDecode]_vars

\* what the tokens from the i-th on say they consume of text1; -1 when a
\* token starts with a byte other than + - =, or the count of a - or =
\* token is not a number or is negative
RECURSIVE DeltaConsumes(_, _)
DeltaConsumes(tokens, i) ==
  IF i > Len(tokens) THEN 0
  ELSE LET token == tokens[i]
           rest == DeltaConsumes(tokens, i + 1)
           count == ParseInt(Tail(token))
       IN IF rest = -1 THEN -1
          ELSE IF Len(token) = 0 \/ Head(token) = Ascii.plus THEN rest
          ELSE IF Head(token) \notin {Ascii.minus, Ascii.eq} THEN -1
          ELSE IF count.err \/ count.n < 0 THEN -1
          ELSE count.n + rest

\* a delta that is malformed for text1
DeltaMalformed(text1, delta) ==
  DeltaConsumes(SplitByte(delta, Ascii.tab, <<>>), 1) # Len(text1)

\* C13: DiffFromDelta of a malformed delta comes back to its caller: the
\* call neither panics nor ends the process.
C13_MalformedDeltaReturns ==
  (pc = "returned" /\ in.op = "DiffFromDelta" /\ DeltaMalformed(in.text1, in.delta)) =>
     ~out[1].panic

(***************************************************************************)
(* Patch.String, PatchToText and PatchFromText, on patches as values.      *)
(***************************************************************************)
\* the coordinates Patch.String writes for a start and a length
PatchCoords(start, length) ==
  IF length = 0 THEN FormatInt(start) \o <<Ascii.comma, Ascii.zero>>
  ELSE IF length = 1 THEN FormatInt(start + 1)
  ELSE FormatInt(start + 1) \o <<Ascii.comma>> \o FormatInt(length)

\* the lines Patch.String writes for the diffs
RECURSIVE PatchBody(_)
PatchBody(diffs) ==
  IF diffs = <<>> THEN <<>>
  ELSE LET d == Head(diffs)
           sign == IF d.Type = DiffInsert THEN <<Ascii.plus>>
                   ELSE IF d.Type = DiffDelete THEN <<Ascii.minus>>
                   ELSE IF d.Type = DiffEqual THEN <<Ascii.space>>
                   ELSE <<>>
       IN sign \o ReplaceByte(QueryEscape(d.Text), Ascii.plus, <<Ascii.space>>)
               \o <<Ascii.lf>> \o PatchBody(Tail(diffs))

\* Patch.String
PatchString(patch) ==
  UnescaperReplace(<<Ascii.at, Ascii.at, Ascii.space, Ascii.minus>>
                   \o PatchCoords(patch.start1, patch.length1)
                   \o <<Ascii.space, Ascii.plus>>
                   \o PatchCoords(patch.start2, patch.length2)
                   \o <<Ascii.space, Ascii.at, Ascii.at, Ascii.lf>>
                   \o PatchBody(patch.diffs))

\* PatchToText
RECURSIVE PatchToText(_)
PatchToText(patches) ==
  IF patches = <<>> THEN <<>>
  ELSE PatchString(Head(patches)) \o PatchToText(Tail(patches))

\* what is left of s after a match of (\d+),?(\d*), or <<-1>> for no match:
\* \d+ takes every digit there is, so \d* has digits only after a comma
RECURSIVE DropDigits(_)
DropDigits(s) ==
  IF s # <<>> /\ Head(s) >= Ascii.zero /\ Head(s) <= Ascii.zero + 9
  THEN DropDigits(Tail(s)) ELSE s

HeaderCoords(s) ==
  LET rest == DropDigits(s)
  IN IF rest = s THEN <<-1>>
     ELSE IF rest # <<>> /\ Head(rest) = Ascii.comma THEN DropDigits(Tail(rest))
     ELSE rest

\* patchHeader.MatchString(line): ^@@ -(\d+),?(\d*) \+(\d+),?(\d*) @@$
patchHeader(line) ==
  /\ HasPrefix(line, <<Ascii.at, Ascii.at, Ascii.space, Ascii.minus>>)
  /\ HasPrefix(HeaderCoords(From(line, 4)), <<Ascii.space, Ascii.plus>>)
  /\ HeaderCoords(From(HeaderCoords(From(line, 4)), 2))
       = <<Ascii.space, Ascii.at, Ascii.at>>

\* the loop of PatchFromText over the lines of a body from text[textPointer]
\* on (p = textPointer + 1): the index of the line it stops at, or -1 when
\* it panics.  text[textPointer][0] of an empty line is out of range.
RECURSIVE FromTextBody(_, _)
FromTextBody(text, p) ==
  IF p > Len(text) THEN p
  ELSE IF Len(text[p]) = 0 THEN -1
  ELSE IF Head(text[p]) \in {Ascii.minus, Ascii.plus, Ascii.space} THEN FromTextBody(text, p + 1)
  ELSE IF Head(text[p]) = Ascii.at THEN p
  ELSE -1

\* the loop of PatchFromText over the patches.  patches = append(patches,
\* patch) stores a copy of Patch{} before the header and the body are read
\* into the variable patch, so the list holds zero patches.
RECURSIVE FromTextLoop(_, _, _)
FromTextLoop(text, p, patches) ==
  IF p > Len(text) THEN Ok(patches)
  ELSE IF ~patchHeader(text[p]) THEN Panic
  ELSE IF FromTextBody(text, p + 1) = -1 THEN Panic
  ELSE FromTextLoop(text, FromTextBody(text, p + 1),
                    Append(patches, [ZeroPatch EXCEPT !.diffs = <<>>]))

\* PatchFromText
PatchFromText(textline) ==
  IF Len(textline) = 0 THEN Ok(<<>>)
  ELSE FromTextLoop(SplitByte(textline, Ascii.lf, <<>>), 1, <<>>)

(***************************************************************************)
(* Specification of the patch texts: a caller parses a text with           *)
(* PatchFromText and writes the patches it gets with PatchToText.          *)
(***************************************************************************)
\* lines of patch texts: the headers "@@ -1 +1 @@" and "@@ -0,0 +1,2 @@",
\* the edits " a", "-a", "+a", and "", "a", "@@ -1 +1 @"
PatchLines ==
  { <<64, 64, 32, 45, 49, 32, 43, 49, 32, 64, 64>>,
    <<64, 64, 32, 45, 48, 44, 48, 32, 43, 49, 44, 50, 32, 64, 64>>,
    <<32, 97>>, <<45, 97>>, <<43, 97>>, <<>>, <<97>>,
    <<64, 64, 32, 45, 49, 32, 43, 49, 32, 64>> }

\* strings.Join(lines, "\n")
RECURSIVE JoinLines(_)
JoinLines(lines) ==
  IF lines = <<>> THEN <<>>
  ELSE IF Len(lines) = 1 THEN lines[1]
  ELSE lines[1] \o <<Ascii.lf>> \o JoinLines(Tail(lines))

\* the texts PatchToText writes for the lists of one patch
WrittenTexts == {PatchToText(ps) : ps \in PatchListsOf(1)}

TextInit ==
  /\ pc = "ready"
  /\ in \in [op : {"PatchFromText"},
             textline : {JoinLines(ls) : ls \in SeqsUpTo(PatchLines, MaxPatchLines)}
                        \cup WrittenTexts]
  /\ out = NoResult

CallPatchFromText ==
  /\ pc = "ready"
  /\ in.op = "PatchFromText"
  /\ out' = <<PatchFromText(in.textline)>>
  /\ pc' = "parsed"
  /\ UNCHANGED in

CallPatchToText ==
  /\ pc = "parsed"
  /\ in.op = "PatchFromText"
  /\ ~out[1].panic
  /\ out' = Append(out, PatchToText(out[1].val))
  /\ pc' = "printed"
  /\ UNCHANGED in

TextNext == CallPatchFromText \/ CallPatchToText

SpecText == TextInit /\ [][TextNext]_vars

\* C14: PatchFromText of a text whose first line is not a patch header
\* comes back to its caller: the call neither panics nor ends the process.
C14_BadHeaderReturns ==
  (/\ pc = "parsed"
   /\ in.op = "PatchFromText"
   /\ Len(in.textline) > 0
   /\ ~patchHeader(SplitByte(in.textline, Ascii.lf, <<>>)[1])) =>
     ~out[1].panic

\* C19: PatchFromText of a text PatchToText has written returns, and
\* PatchToText of the patches it returns is that text.
C19_TextRoundTrip ==
  (in.op = "PatchFromText" /\ in.textline \in WrittenTexts) =>
     /\ pc = "parsed" => ~out[1].panic
     /\ pc = "printed" => out[2] = in.textline

\* C15: MatchMain of a non-empty text and a non-empty pattern that have no
\* byte in common, so that no match is acceptable, returns -1.
C15_NoMatchReturnsMinusOne ==
  (/\ pc = "returned"
   /\ in.op = "MatchMain"
   /\ in.text # <<>>
   /\ in.pattern # <<>>
   /\ {in.text[i] : i \in DOMAIN in.text} \cap {in.pattern[i] : i \in DOMAIN in.pattern} = {}) =>
     out[1] = Ok(-1)

\* the patches of the caller's list after a call of PatchSplitMax or of
\* PatchAddPadding
PatchesLeft == PatchesAt(out[1].h, [list |-> 1, len |-> Len(in.patches)])

\* length1 and length2 of a patch are the lengths of the texts of its diffs
LengthsAgree(p) ==
  /\ p.length1 = Len(DiffText1(p.diffs))
  /\ p.length2 = Len(DiffText2(p.diffs))

\* C16: PatchMake returns patches whose length1 and length2 are the
\* lengths of the texts of their diffs, and PatchAddPadding and
\* PatchSplitMax leave such patches when they are given such patches.
C16_LengthsAgree ==
  /\ (in.op = "PatchMake" /\ Len(in.opt) \in 1..3 /\ pc = "made") =>
        /\ ~out[1].panic
        /\ \A i \in DOMAIN out[1].val : LengthsAgree(out[1].val[i])
  /\ (in.op \in {"PatchSplitMax", "PatchAddPadding"} /\ pc \in {"split", "padded"}) =>
        \A i \in DOMAIN PatchesLeft : LengthsAgree(PatchesLeft[i])

\* C17: PatchMake(text1, text2) returns patches in increasing order that
\* do not overlap, in text1 and in text2.
C17_PatchesInOrder ==
  (in.op = "PatchMake" /\ Len(in.opt) = 2 /\ in.opt[2].kind = "string" /\ pc = "made") =>
     /\ ~out[1].panic
     /\ \A i \in 1..(Len(out[1].val) - 1) :
          LET p == out[1].val[i]
              q == out[1].val[i + 1]
          IN /\ p.start1 < q.start1 /\ p.start1 + p.length1 <= q.start1
             /\ p.start2 < q.start2 /\ p.start2 + p.length2 <= q.start2

\* C18: the list PatchSplitMax leaves holds no patch with length1 above
\* MatchMaxBits.
C18_SplitBoundsLength1 ==
  (in.op = "PatchSplitMax" /\ pc = "split") =>
     \A i \in DOMAIN PatchesLeft : PatchesLeft[i].length1 <= in.dmp.MatchMaxBits

\* the length of a longest common subsequence of two texts
RECURSIVE LCSLength(_, _)
LCSLength(a, b) ==
  IF Len(a) = 0 \/ Len(b) = 0 THEN 0
  ELSE IF a[1] = b[1] THEN 1 + LCSLength(Tail(a), Tail(b))
  ELSE Max(LCSLength(Tail(a), b), LCSLength(a, Tail(b)))

\* the number of characters an edit script inserts or deletes
RECURSIVE EditedChars(_)
EditedChars(diffs) ==
  IF Len(diffs) = 0 THEN 0
  ELSE (IF diffs[1].Type = DiffEqual THEN 0 ELSE Len(diffs[1].Text))
       + EditedChars(Tail(diffs))

\* C20: with DiffTimeout <= 0 and checklines false, DiffMain returns a
\* minimal edit script: the characters it inserts and deletes number
\* len(text1) + len(text2) - 2 * LCS(text1, text2).
C20_MinimalEditScript ==
  (/\ pc = "returned" /\ in.op = "DiffMain"
   /\ in.dmp.DiffTimeout <= 0
   /\ Len(in.opt) > 0 /\ in.opt[1] = OptBool(FALSE)) =>
     /\ ~out[1].panic
     /\ EditedChars(out[1].val)
          = Len(in.text1) + Len(in.text2) - 2 * LCSLength(in.text1, in.text2)

(***************************************************************************)
(* Specification of the bisection: a caller calls DiffBisect with two      *)
(* texts and a deadline that is past, that the clock passes at turn        *)
(* dmp.late of the loop, or that is never reached.                         *)
(***************************************************************************)
BisectEngines == [DiffTimeout : {1}, now : {1794000000}, late : {-1, 0, 1, 2}]

BisectInit ==
  /\ pc = "ready"
  /\ in \in [op : {"DiffBisect"}, dmp : BisectEngines, text1 : Texts, text2 : Texts,
             deadline : {0, 1794000000 + 1000, max32}]
  /\ out = NoResult

CallDiffBisect ==
  /\ pc = "ready"
  /\ in.op = "DiffBisect"
  /\ out' = <<DiffBisect(in.dmp, in.text1, in.text2, in.deadline)>>
  /\ pc' = "bisected"
  /\ UNCHANGED in

SpecBisect == BisectInit /\ [][CallDiffBisect]_vars

\* the variables of the DiffBisect call of the state when its loop ended
BisectEnded == BisectEnd(in.dmp, in.text1, in.text2, in.deadline)

\* C21: when the deadline is past as DiffBisect starts, or its loop ends
\* with no overlap of the two paths found, DiffBisect returns
\* [Delete text1, Insert text2].
C21_BisectFallsBack ==
  (/\ pc = "bisected"
   /\ \/ TimeNowUnix(in.dmp, 0) > in.deadline
      \/ BisectEnded.status # "split") =>
     out[1] = Ok(<<Diff(DiffDelete, in.text1), Diff(DiffInsert, in.text2)>>)

\* C30: DiffBisect indexes v1 and v2 within their bounds.
C30_BisectIndexesInBounds ==
  pc = "bisected" => ~(BisectEnded.status = "panic" /\ BisectEnded.where = "v")

\* whether a call of DiffMain with two options or none calls DiffMain again:
\* diffCompute_ does for a half match, diffBisectSplit_ for an overlap
DiffMainRecurses(dmp, text1, text2, opt) ==
  LET prefixlength == DiffCommonPrefix(text1, text2)
      t1 == From(text1, prefixlength)
      t2 == From(text2, prefixlength)
      suffixlength == DiffCommonSuffix(t1, t2)
      m1 == Slice(t1, 0, Len(t1) - suffixlength)
      m2 == Slice(t2, 0, Len(t2) - suffixlength)
      longtext == IF Len(m1) > Len(m2) THEN m1 ELSE m2
      shorttext == IF Len(m1) > Len(m2) THEN m2 ELSE m1
  IN /\ text1 # text2
     /\ Len(shorttext) > 1
     /\ StringsIndex(longtext, shorttext) = -1
     /\ \/ DiffHalfMatch(dmp, m1, m2) # <<>>
        \/ /\ ~(DiffMainChecklines(opt) /\ Len(m1) > LineModeMin /\ Len(m2) > LineModeMin)
           /\ BisectEnd(dmp, m1, m2, DiffMainDeadline(dmp, opt)).status = "split"

\* C22: a DiffMain that DiffMain calls runs with the deadline of its caller.
C22_DeadlineHandedDown ==
  (/\ pc = "returned" /\ in.op = "DiffMain" /\ Len(in.opt) # 1
   /\ DiffMainRecurses(in.dmp, in.text1, in.text2, in.opt)) =>
     \A checklines \in BOOLEAN :
        DiffMainDeadline(in.dmp, <<OptBool(checklines),
                                   OptInt(DiffMainDeadline(in.dmp, in.opt))>>)
          = DiffMainDeadline(in.dmp, in.opt)

(***************************************************************************)
(* Specification of the recursion of DiffCleanupMerge: out holds the       *)
(* argument of every call made so far, the last one being the call that    *)
(* runs, and at the end the edit script returned.                          *)
(***************************************************************************)
MergeInit ==
  /\ pc = "merging"
  /\ in \in [op : {"DiffCleanupMerge"}, diffs : EditScripts]
  /\ out = <<in.diffs>>

\* the second pass slid an edit: the call calls DiffCleanupMerge
MergeRecurse ==
  /\ pc = "merging"
  /\ Len(out) < MaxMergeDepth
  /\ MergePass(out[Len(out)]).changes
  /\ out' = Append(out, MergePass(out[Len(out)]).diffs)
  /\ UNCHANGED <<pc, in>>

\* no edit was slid: the call returns its slice
MergeReturn ==
  /\ pc = "merging"
  /\ ~MergePass(out[Len(out)]).changes
  /\ out' = Append(out, MergePass(out[Len(out)]).diffs)
  /\ pc' = "returned"
  /\ UNCHANGED in

MergeNext == MergeRecurse \/ MergeReturn

SpecMerge == MergeInit /\ [][MergeNext]_vars

\* C23: the recursion of DiffCleanupMerge is finite, because every call it
\* makes of itself has fewer edits than the call that makes it or slides no
\* edit.
C23_MergeRecursionShrinks ==
  [][pc' = "merging" =>
       \/ Len(out'[Len(out')]) < Len(out[Len(out)])
       \/ ~MergePass(out'[Len(out')]).changes]_vars

(***************************************************************************)
(* Specification of the line mode: diffLineMode is called as diffCompute_  *)
(* calls it for DiffMain(text1, text2, true, nil), and the same texts are  *)
(* diffed by DiffMain(text1, text2, false, nil).  The call is made for    *)
(* texts of at most 2 lines together, whose diff of lines has at most 2    *)
(* edits (see LineModeCleaned).                                            *)
(***************************************************************************)
LineTexts == SeqsUpTo({Ascii.a, Ascii.b, Ascii.lf}, MaxTextLen)

\* the number of lines of the two texts together: the diff of the lines of
\* texts of at most 2 lines has at most 2 edits
LineCount(c) == Len(c.chars1) + Len(c.chars2)

LineModeInit ==
  /\ pc = "ready"
  /\ in \in [op : {"diffLineMode"}, dmp : DiffEngines,
              text1 : LineTexts, text2 : LineTexts]
  /\ out = NoResult

CallDiffLineMode ==
  /\ pc = "ready"
  /\ in.op = "diffLineMode"
  /\ LineCount(DiffLinesToChars(in.text1, in.text2)) <= 2
  /\ out' = <<diffLineMode(in.dmp, in.text1, in.text2,
                           DiffMainDeadline(in.dmp, <<OptBool(TRUE), OptNil>>)),
              DiffMain(in.dmp, in.text1, in.text2, <<OptBool(FALSE), OptNil>>)>>
  /\ pc' = "linemode"
  /\ UNCHANGED in

SpecLineMode == LineModeInit /\ [][CallDiffLineMode]_vars

\* C24: the edit script of the line mode rebuilds the same text1 and the
\* same text2 as the edit script DiffMain returns for checklines false.
C24_LineModeRebuildsSame ==
  (pc = "linemode" /\ ~out[2].panic) =>
     /\ ~out[1].panic
     /\ DiffText1(out[1].val) = DiffText1(out[2].val)
     /\ DiffText2(out[1].val) = DiffText2(out[2].val)

\* C25: DiffCleanupSemantic changes a Delete followed by an Insert, both
\* non-empty, by carving their overlap into an Equal, if and only if twice
\* the overlap is at least the length of the shorter of the two texts.
C25_CarvesFromHalfOverlap ==
  (/\ pc = "returned" /\ in.op = "DiffCleanupSemantic"
   /\ Len(in.diffs) = 2
   /\ in.diffs[1].Type = DiffDelete /\ Len(in.diffs[1].Text) > 0
   /\ in.diffs[2].Type = DiffInsert /\ Len(in.diffs[2].Text) > 0) =>
     /\ ~out[1].panic
     /\ (out[1].val # in.diffs) <=>
          (2 * Max(DiffCommonOverlap(in.diffs[1].Text, in.diffs[2].Text),
                   DiffCommonOverlap(in.diffs[2].Text, in.diffs[1].Text))
             >= Min(Len(in.diffs[1].Text), Len(in.diffs[2].Text)))

\* C26: when no patch of a non-empty list matches the text (here the text
\* is empty and every patch expects a non-empty text1), PatchApply returns
\* the text it was given and one false result for every patch.
C26_NoMatchKeepsText ==
  (/\ pc = "applied" /\ in.op = "PatchApply"
   /\ Len(in.patches) > 0 /\ in.text = <<>>
   /\ \A i \in DOMAIN in.patches : Len(DiffText1(in.patches[i].diffs)) > 0) =>
     /\ out[1].status = "returned"
     /\ out[1].text = in.text
     /\ out[1].results = [i \in DOMAIN in.patches |-> FALSE]

\* C27: PatchApply drops a patch whose text1 is longer than MatchMaxBits
\* when the distance of the diff of text1 and the text found, divided by
\* the length of text1 as a real number, is above PatchDeleteThreshold.
C27_DropsAboveThreshold ==
  (/\ pc = "judged" /\ in.op = "DiffLevenshtein"
   /\ Len(DiffText1(in.diffs)) > out[2].MatchMaxBits
   /\ out[1] * PatchDeleteThreshold.den
        > PatchDeleteThreshold.num * Len(DiffText1(in.diffs))) =>
     out[2].dropped

\* C28: PatchMake(diffs), PatchMake(text1, diffs) and
\* PatchMake(text1, text2, diffs) return, and return the same patches.
C28_MakeFormsAgree ==
  (/\ pc = "made" /\ in.op = "PatchMake"
   /\ Len(in.opt) \in 1..3 /\ in.opt[Len(in.opt)].kind = "[]Diff") =>
     /\ ~out[1].panic
     /\ out[1] = PatchMake(in.dmp, <<in.opt[Len(in.opt)]>>)


\* C29: PatchSplitMax terminates on every finite list of patches: each turn
\* of its inner loop removes the first remaining diff of the big patch or a
\* non-empty part of its text, so no call is left looping for ever
C29_SplitMaxTerminates ==
  (in.op = "PatchSplitMax" /\ pc = "split") => out[1].status # "hang"

====
